---- MODULE Spec2Model ----
(***************************************************************************)
(* Write path of the ticketing service: the four command handlers          *)
(* (bookTicketHandler, reserveTicketHandler, confirmTicketHandler,         *)
(* cancelTicketHandler), each running its statements inside                *)
(* writeDb.transaction on a PostgreSQL connection (READ COMMITTED, row     *)
(* locks taken by SELECT ... FOR UPDATE and by UPDATE), followed by the    *)
(* publish of the event on the bus after COMMIT.                           *)
(*                                                                         *)
(* A step of a task is a run of statements of its handler that no other    *)
(* task can observe or delay: it ends where the transaction next waits for *)
(* a row lock, at COMMIT, and at the publish.  Time is in minutes.         *)
(* Of the columns that no handler ever reads back, passenger_name stands   *)
(* for all (route_id, passenger_email, passenger_phone, currency,          *)
(* reserved_at, created_at, updated_at are left out of the rows), and so   *)
(* are the timestamps of a bus message, which no consumer reads.           *)
(***************************************************************************)
EXTENDS Integers, Sequences, FiniteSets, TLC

\* ---------------------------------------------------------------- bounds
MaxBookings == 2
MaxRows == 4
MaxTicks == 2
TickMinutes == 5
MaxTasks == 2
MaxRedeliveries == 1
MaxQueries == 2
MaxSerialRows == 6

\* ------------------------------------------------------------ value sets
\* users who book, and users (or none: a service call) who cancel
Bookers == {"U1"}
Users == {"U1", "U2"}
NoUser == "none"
Schedules == {"S1"}
SeatNumbers == {"A1", "A2"}
NoSeat == "none"
\* seat_availability rows that exist (seeded); <<S1, A2>> has no row
SeatRows == {<<"S1", "A1">>}
Prices == {0, 25}
Passengers == {"Ann"}
NoName == "none"
PaymentIds == {"P9"}
NoPayment == "null"
NoTime == -1
NoBooking == 0
NoAmount == -1
BookingIds == 1..MaxBookings
Tasks == 1..MaxTasks
DEFAULT_RESERVATION_DURATION_MINUTES == 15
\* reservationDurationMinutes of a command; 0 stands for an absent value
Durations == {0, 5}

PENDING == "PENDING"
RESERVED == "RESERVED"
CONFIRMED == "CONFIRMED"
CANCELLED == "CANCELLED"
EXPIRED == "EXPIRED"
REFUNDED == "REFUNDED"
BookingStatus == {PENDING, RESERVED, CONFIRMED, CANCELLED, EXPIRED, REFUNDED}

VARIABLES
  now,        \* the wall clock, in minutes
  bookings,   \* committed rows of table bookings, by id
  seats,      \* committed rows of table seat_availability, by <<schedule_id, seat_number>>
  events,     \* committed rows of table booking_events
  task,       \* the command tasks: position, command, open transaction, outcome
  bus,        \* messages sent on topic ticket-events, in send order for each key
  readDb,     \* the read store: user_tickets_view, schedule_availability_view,
              \* projection_checkpoints
  offset,     \* for each key, how many of its messages the projector's consumer is past
  redelivered, \* how often the consumer has gone back to an earlier offset
  cache,      \* the Redis entries that have not run out, by key
  qtask       \* the query tasks: position, query, what was read, outcome

vars == <<now, bookings, seats, events, task, bus, readDb, offset, redelivered,
          cache, qtask>>
tables == <<bookings, seats, events>>
readSide == <<readDb, offset, redelivered, cache, qtask>>

\* ----------------------------------------------------------------- tasks
NoCmd ==
  [userId |-> NoUser, scheduleId |-> "none", seatNumber |-> NoSeat, price |-> 0,
   passengerName |-> NoName, duration |-> 0, bookingId |-> NoBooking,
   paymentId |-> NoPayment]

\* lockB, lockS: row locks the open transaction holds; txB, txS, txE: rows its
\* statements have written, invisible to others until COMMIT; ret: the booking
\* the handler returns; published: how the publish went
IdleTask ==
  [pc |-> "idle", op |-> "none", cmd |-> NoCmd, txStart |-> NoTime,
   lockB |-> {}, lockS |-> {}, txB |-> {}, txS |-> {}, txE |-> {},
   result |-> "none", errStatus |-> "none", ret |-> {}, refund |-> NoAmount,
   published |-> "none"]

InTx == {"seatCheck", "insert", "selectBooking", "updateSeat", "commit"}

SeatKey(c) == <<c.scheduleId, c.seatNumber>>

\* row locks held by open transactions of other tasks
SeatLockedByOther(t, k) == \E o \in Tasks \ {t} : k \in task[o].lockS
BookingLockedByOther(t, b) == \E o \in Tasks \ {t} : b \in task[o].lockB

\* uuidv4() of a booking: an id nobody uses
UsedBookingIds == DOMAIN bookings \cup UNION {{r.id : r \in task[o].txB} : o \in Tasks}
FreshBookingId == CHOOSE b \in BookingIds \ UsedBookingIds :
                    \A c \in BookingIds \ UsedBookingIds : b <= c

\* uuidv4() of an event: named by the call that draws it (the INSERT into the
\* store or createBaseEvent, the aggregate, the event type, and how many were
\* drawn there before), so that no two draws give the same id
StoreEventIds ==
  {e.eventId : e \in events} \cup UNION {{e.eventId : e \in task[o].txE} : o \in Tasks}
FreshStoreEventId(b, type) ==
  [site |-> "store", agg |-> b, type |-> type,
   n |-> 1 + Cardinality({i \in StoreEventIds : i.agg = b /\ i.type = type})]
FreshBusEventId(b, type) ==
  [site |-> "bus", agg |-> b, type |-> type,
   n |-> 1 + Cardinality({i \in 1..Len(bus[b]) : bus[b][i].eventType = type})]

\* the read store as schema.sql creates it: no rows
NoEventId == [site |-> "none", agg |-> NoBooking, type |-> "none", n |-> 0]
EmptyReadDb == [tickets |-> <<>>, availability |-> <<>>, checkpoint |-> NoEventId]

\* Redis with no entry: ticket:{bookingId} and user:{userId}:tickets:page:{p}:limit:{l}
EmptyCache == [ticket |-> <<>>, userTickets |-> <<>>]

\* the queries in flight
QueryTasks == 1..MaxQueries
NoQuery ==
  [userId |-> NoUser, bookingId |-> NoBooking, page |-> {}, limit |-> {}, status |-> {}]

\* found: the row read from the read store; hit: served from the cache;
\* ret: what the handler returns
IdleQuery ==
  [pc |-> "idle", kind |-> "none", query |-> NoQuery, found |-> {},
   hit |-> FALSE, result |-> "none", ret |-> {}]

\* ------------------------------------------------------------------ Init
Init ==
  /\ now = 0
  /\ bookings = <<>>
  /\ seats = [k \in SeatRows |->
                [status |-> "AVAILABLE", bookingId |-> NoBooking, lockedUntil |-> NoTime]]
  /\ events = {}
  /\ task = [t \in Tasks |-> IdleTask]
  /\ bus = [b \in BookingIds |-> <<>>]
  /\ readDb = EmptyReadDb
  /\ offset = [b \in BookingIds |-> 0]
  /\ redelivered = 0
  /\ cache = EmptyCache
  /\ qtask = [q \in QueryTasks |-> IdleQuery]

\* ------------------------------------------------- writeDb.transaction
\* catch: ROLLBACK, rethrow.  The statements of the transaction are dropped
\* and its row locks released; the tables are as the last COMMIT left them.
RolledBack(t, err, st) ==
  [IdleTask EXCEPT !.pc = "done", !.result = err, !.errStatus = st]

TablesAfterCommit(t) ==
  [bookings |-> [b \in DOMAIN bookings \cup {r.id : r \in task[t].txB} |->
                   IF \E r \in task[t].txB : r.id = b
                     THEN CHOOSE r \in task[t].txB : r.id = b
                     ELSE bookings[b]],
   seats |-> [k \in DOMAIN seats |->
                IF \E w \in task[t].txS : w.key = k
                  THEN (CHOOSE w \in task[t].txS : w.key = k).row
                  ELSE seats[k]],
   events |-> events \cup task[t].txE]

\* a ROLLBACK that leaves the statements of the transaction in place
RollbackKeepsWrites(t) == TablesAfterCommit(t)

TablesAfterRollback(t) ==
  [bookings |-> bookings, seats |-> seats, events |-> events]

Fail(t, err, st) ==
  /\ task' = [task EXCEPT ![t] = RolledBack(t, err, st)]
  /\ bookings' = TablesAfterRollback(t).bookings
  /\ seats' = TablesAfterRollback(t).seats
  /\ events' = TablesAfterRollback(t).events
  /\ UNCHANGED <<now, bus, readSide>>

\* ----------------------------------------------------------- validation
ValidBookOrReserve(c) ==
  /\ c.userId # NoUser
  /\ c.scheduleId # "none"
  /\ c.passengerName # NoName
  /\ c.price > 0

ValidConfirm(c) == c.bookingId # NoBooking /\ c.paymentId # NoPayment
ValidCancel(c) == c.bookingId # NoBooking

Valid(op, c) ==
  CASE op \in {"Book", "Reserve"} -> ValidBookOrReserve(c)
    [] op = "Confirm" -> ValidConfirm(c)
    [] op = "Cancel" -> ValidCancel(c)

Commands(op) ==
  CASE op = "Book" ->
         {[NoCmd EXCEPT !.userId = u, !.scheduleId = s, !.seatNumber = n, !.price = p,
                        !.passengerName = a] :
            u \in Bookers, s \in Schedules, n \in SeatNumbers \cup {NoSeat},
            p \in Prices, a \in Passengers}
    [] op = "Reserve" ->
         {[NoCmd EXCEPT !.userId = u, !.scheduleId = s, !.seatNumber = n, !.price = p,
                        !.passengerName = a, !.duration = d] :
            u \in Bookers, s \in Schedules, n \in SeatNumbers \cup {NoSeat},
            p \in Prices, a \in Passengers, d \in Durations}
    [] op = "Confirm" ->
         {[NoCmd EXCEPT !.bookingId = b, !.paymentId = p] :
            b \in BookingIds, p \in PaymentIds}
    [] op = "Cancel" ->
         {[NoCmd EXCEPT !.bookingId = b, !.userId = u] :
            b \in BookingIds, u \in Users \cup {NoUser}}

\* Transactions in flight, and those of them that create a booking.  A
\* request is taken only while the rows it may add fit the bounds: Book and
\* Reserve add a booking and an event, Confirm and Cancel an event.
Open == {o \in Tasks : task[o].pc \in InTx}
Creating == {o \in Open : task[o].op \in {"Book", "Reserve"}}
Adds(op) == IF op \in {"Book", "Reserve"} THEN 2 ELSE 1
RowsClaimed ==
  Cardinality(DOMAIN bookings) + Cardinality(events)
    + 2 * Cardinality(Creating) + Cardinality(Open \ Creating)

\* where the callback of the transaction first waits for the store
FirstPc(op, c) ==
  IF op \in {"Book", "Reserve"}
    THEN IF c.seatNumber # NoSeat THEN "seatCheck" ELSE "insert"
    ELSE "selectBooking"

\* the task of a valid command once BEGIN is sent.  NOW() of the transaction
\* is its start time; only the seat check of Reserve reads it.
Taken(op, c) ==
  [IdleTask EXCEPT !.pc = FirstPc(op, c), !.op = op, !.cmd = c,
                   !.txStart = IF FirstPc(op, c) = "seatCheck" /\ op = "Reserve"
                                 THEN now ELSE NoTime]

\* the task of a command that validation rejects
Rejected == [IdleTask EXCEPT !.pc = "done", !.result = "BAD_REQUEST"]

\* A request arrives, on the first free task slot: the handler validates the
\* command, takes a connection and sends BEGIN.
Start(t) ==
  /\ task[t].pc = "idle"
  /\ \A o \in Tasks : o < t => task[o].pc # "idle"
  /\ \E op \in {"Book", "Reserve", "Confirm", "Cancel"} : \E c \in Commands(op) :
       /\ Valid(op, c) => RowsClaimed + Adds(op) <= MaxRows
       /\ op \in {"Book", "Reserve"} /\ Valid(op, c) =>
            Cardinality(DOMAIN bookings) + Cardinality(Creating) < MaxBookings
       /\ task' = [task EXCEPT ![t] = IF Valid(op, c) THEN Taken(op, c) ELSE Rejected]
  /\ UNCHANGED <<now, bookings, seats, events, bus, readSide>>

\* Reserve commands of every reservationDurationMinutes: absent, at or inside
\* the ends of the schema's range, and below and above it
ReserveRequests ==
  {[c EXCEPT !.duration = d] : c \in Commands("Reserve"), d \in {0, 4, 5, 61}}

\* schemas.reserveTicket: reservationDurationMinutes, if given, from 5 to 60
ReserveSchema(c) == c.duration = 0 \/ (c.duration >= 5 /\ c.duration <= 60)

\* reserveTicketHandler called with a command
ReserveCall(t) ==
  /\ task[t].pc = "idle"
  /\ \A o \in Tasks : o < t => task[o].pc # "idle"
  /\ \E c \in ReserveRequests :
       /\ Valid("Reserve", c) => RowsClaimed + 2 <= MaxRows
       /\ Valid("Reserve", c) =>
            Cardinality(DOMAIN bookings) + Cardinality(Creating) < MaxBookings
       /\ task' = [task EXCEPT ![t] =
            IF Valid("Reserve", c) THEN Taken("Reserve", c)
            ELSE [Rejected EXCEPT !.op = "Reserve", !.cmd = c]]
  /\ UNCHANGED <<now, bookings, seats, events, bus, readSide>>

\* POST /reserve: validate(schemas.reserveTicket) passes a ValidationError to
\* the error handler, or reserveTicketHandler is called
ReserveRoute(t) ==
  /\ task[t].pc = "idle"
  /\ \A o \in Tasks : o < t => task[o].pc # "idle"
  /\ \E c \in ReserveRequests :
       /\ ReserveSchema(c) /\ Valid("Reserve", c) => RowsClaimed + 2 <= MaxRows
       /\ ReserveSchema(c) /\ Valid("Reserve", c) =>
            Cardinality(DOMAIN bookings) + Cardinality(Creating) < MaxBookings
       /\ task' = [task EXCEPT ![t] =
            IF ~ReserveSchema(c)
              THEN [Rejected EXCEPT !.result = "VALIDATION_ERROR", !.op = "Reserve",
                                    !.cmd = c]
            ELSE IF Valid("Reserve", c) THEN Taken("Reserve", c)
            ELSE [Rejected EXCEPT !.op = "Reserve", !.cmd = c]]
  /\ UNCHANGED <<now, bookings, seats, events, bus, readSide>>

\* ------------------------------------------------- Book and Reserve
\* the reservation's length, as reserveTicketHandler computes it
ReservationDuration(c) ==
  IF c.duration # 0 THEN c.duration ELSE DEFAULT_RESERVATION_DURATION_MINUTES

\* WHERE clause of the seat check; locked_until < NULL is not true in SQL,
\* and NOW() is the transaction's start time
BookTakesLockedSeat(row) == row.status # "BOOKED"
BookSeatMatches(row) == row.status = "AVAILABLE"

\* a seat check that takes a LOCKED row whatever its locked_until
ReserveTakesAnyLock(row, txnow) == row.status \in {"AVAILABLE", "LOCKED"}

ReserveSeatMatches(row, txnow) ==
  \/ row.status = "AVAILABLE"
  \/ row.status = "LOCKED" /\ row.lockedUntil # NoTime /\ row.lockedUntil < txnow

SeatMatches(t, row) ==
  IF task[t].op = "Book" THEN BookSeatMatches(row)
                         ELSE ReserveSeatMatches(row, task[t].txStart)

\* a store whose statements take the row without waiting for its holder
TakesSeatUnlocked(t, k) == TRUE

\* a store that grants a row only while no other transaction is open
GrantedWhenAlone(t, k) == \A o \in Tasks \ {t} : task[o].pc \notin InTx

\* SELECT ... FOR UPDATE and UPDATE wait while another transaction holds the row
CanLockSeat(t, k) == ~SeatLockedByOther(t, k)

\* the row of INSERT INTO bookings, with bookingId = uuidv4() and now = new Date()
NewBooking(t, id, at) ==
  LET c == task[t].cmd
      reserve == task[t].op = "Reserve"
  IN [id |-> id, userId |-> c.userId, scheduleId |-> c.scheduleId,
      seatNumber |-> c.seatNumber, passengerName |-> c.passengerName,
      price |-> c.price,
      status |-> IF reserve THEN RESERVED ELSE PENDING,
      paymentId |-> NoPayment,
      confirmedAt |-> NoTime, cancelledAt |-> NoTime,
      expiresAt |-> IF reserve THEN at + ReservationDuration(c) ELSE NoTime]

\* the SET clause of each handler's UPDATE seat_availability, for booking b
SeatAfter(t, b, row) ==
  CASE task[t].op = "Book" ->
         [row EXCEPT !.status = "BOOKED", !.bookingId = b.id]
    [] task[t].op = "Reserve" ->
         [row EXCEPT !.status = "LOCKED", !.bookingId = b.id,
                     !.lockedUntil = b.expiresAt]
    [] task[t].op = "Confirm" ->
         [row EXCEPT !.status = "BOOKED", !.lockedUntil = NoTime]
    [] task[t].op = "Cancel" ->
         [row EXCEPT !.status = "AVAILABLE", !.bookingId = NoBooking,
                     !.lockedUntil = NoTime]

EventType(op) ==
  CASE op = "Book" -> "TICKET_BOOKED"
    [] op = "Reserve" -> "TICKET_RESERVED"
    [] op = "Confirm" -> "TICKET_CONFIRMED"
    [] op = "Cancel" -> "TICKET_CANCELLED"

\* the version each handler writes into booking_events
EventVersion(op) == IF op \in {"Book", "Reserve"} THEN 1 ELSE 2

\* the JSON payload each handler stores; b is the booking after the statement,
\* at the handler's now, refund its refundAmount
StoredPayload(t, b, at, refund) ==
  LET c == task[t].cmd IN
    CASE task[t].op = "Book" ->
           [bookingId |-> b.id, userId |-> c.userId, scheduleId |-> c.scheduleId,
            seatNumber |-> c.seatNumber, price |-> c.price]
      [] task[t].op = "Reserve" ->
           [bookingId |-> b.id, userId |-> c.userId, scheduleId |-> c.scheduleId,
            seatNumber |-> c.seatNumber, price |-> c.price, expiresAt |-> b.expiresAt]
      [] task[t].op = "Confirm" ->
           [bookingId |-> c.bookingId, paymentId |-> c.paymentId, confirmedAt |-> at]
      [] task[t].op = "Cancel" ->
           [bookingId |-> c.bookingId,
            userId |-> IF c.userId # NoUser THEN c.userId ELSE b.userId,
            cancelledAt |-> at, refundAmount |-> refund]

\* the row of INSERT INTO booking_events
StoredEvent(t, b, at, refund) ==
  [eventId |-> FreshStoreEventId(b.id, EventType(task[t].op)),
   eventType |-> EventType(task[t].op), aggregateId |-> b.id,
   version |-> EventVersion(task[t].op), payload |-> StoredPayload(t, b, at, refund)]

\* SELECT id FROM seat_availability WHERE ... FOR UPDATE.  A row that does
\* not match returns at once (INSUFFICIENT_SEATS); a matching row is locked,
\* after waiting for the transaction that holds it, and looked at again once
\* it is free.  Then, the lock held: INSERT INTO bookings, UPDATE
\* seat_availability, INSERT INTO booking_events.
SeatCheck(t) ==
  /\ task[t].pc = "seatCheck"
  /\ LET k == SeatKey(task[t].cmd)
         b == NewBooking(t, FreshBookingId, now)
     IN IF k \notin DOMAIN seats \/ ~SeatMatches(t, seats[k])
          THEN Fail(t, "INSUFFICIENT_SEATS", "none")
          ELSE /\ CanLockSeat(t, k)
               /\ task' = [task EXCEPT ![t] =
                             [@ EXCEPT !.pc = "commit", !.txStart = NoTime,
                                       !.lockS = {k}, !.txB = {b}, !.ret = {b},
                                       !.txS = {[key |-> k, row |-> SeatAfter(t, b, seats[k])]},
                                       !.txE = {StoredEvent(t, b, now, NoAmount)}]]
               /\ UNCHANGED <<now, bookings, seats, events, bus, readSide>>

\* no seatNumber: INSERT INTO bookings, INSERT INTO booking_events
Insert(t) ==
  /\ task[t].pc = "insert"
  /\ LET b == NewBooking(t, FreshBookingId, now) IN
       task' = [task EXCEPT ![t] =
                  [@ EXCEPT !.pc = "commit", !.txB = {b}, !.ret = {b},
                            !.txE = {StoredEvent(t, b, now, NoAmount)}]]
  /\ UNCHANGED <<now, bookings, seats, events, bus, readSide>>

\* ------------------------------------------------- Confirm and Cancel
\* a SELECT without FOR UPDATE: it does not wait for the row's holder
SelectsUnlocked(t, b) == TRUE

\* SELECT * FROM bookings WHERE id = $1 FOR UPDATE waits for the row's holder
CanLockBooking(t, b) == ~BookingLockedByOther(t, b)

\* state checks that let a finished booking through
ConfirmableOrConfirmed == {RESERVED, PENDING, CONFIRMED}
CancellableOrCancelled == {PENDING, RESERVED, CONFIRMED, CANCELLED}

ConfirmableStates == {RESERVED, PENDING}
CancellableStates == {PENDING, RESERVED, CONFIRMED}

\* an expiry check that also refuses a confirm at the deadline itself
ExpiredAtDeadline(row, at) == row.expiresAt # NoTime /\ row.expiresAt <= at

\* existingBooking.expires_at && new Date(existingBooking.expires_at) < new Date()
ReservationExpired(row, at) == row.expiresAt # NoTime /\ row.expiresAt < at

\* an ownership check that does not look whether the command names a user
NotOwnerEvenUnnamed(c, row) == row.userId # c.userId

\* command.userId && existingBooking.user_id !== command.userId
NotOwner(c, row) == c.userId # NoUser /\ row.userId # c.userId

\* a refund policy that refunds every cancel
RefundAlways(row) == row.price

\* refund policy of cancelTicketHandler
RefundAmount(row) == IF row.status = CONFIRMED THEN row.price ELSE NoAmount

\* the error the checks after the SELECT throw, "none" when they pass
ConfirmError(c, row, at) ==
  IF row.status \notin ConfirmableStates \/ ReservationExpired(row, at)
    THEN "INVALID_BOOKING_STATE" ELSE "none"

CancelError(c, row, at) ==
  IF NotOwner(c, row) THEN "FORBIDDEN"
  ELSE IF row.status \notin CancellableStates THEN "INVALID_BOOKING_STATE"
  ELSE "none"

CheckError(t, row) ==
  IF task[t].op = "Confirm" THEN ConfirmError(task[t].cmd, row, now)
                            ELSE CancelError(task[t].cmd, row, now)

\* an UPDATE that forgets payment_id
ConfirmedWithoutPayment(c, row, at) ==
  [row EXCEPT !.status = CONFIRMED, !.confirmedAt = at, !.expiresAt = NoTime]

\* the SET clause of UPDATE bookings
ConfirmedBooking(c, row, at) ==
  [row EXCEPT !.status = CONFIRMED, !.paymentId = c.paymentId,
              !.confirmedAt = at, !.expiresAt = NoTime]

\* an UPDATE that also sets payment_id = NULL
CancelledClearsPayment(c, row, at) ==
  [row EXCEPT !.status = CANCELLED, !.cancelledAt = at, !.expiresAt = NoTime,
              !.paymentId = NoPayment]

\* an UPDATE that forgets expires_at = NULL
CancelledKeepsExpiry(c, row, at) ==
  [row EXCEPT !.status = CANCELLED, !.cancelledAt = at]

CancelledBooking(c, row, at) ==
  [row EXCEPT !.status = CANCELLED, !.cancelledAt = at, !.expiresAt = NoTime]

BookingAfter(t, row) ==
  IF task[t].op = "Confirm" THEN ConfirmedBooking(task[t].cmd, row, now)
                            ELSE CancelledBooking(task[t].cmd, row, now)

Refund(t, row) == IF task[t].op = "Cancel" THEN RefundAmount(row) ELSE NoAmount

\* SELECT ... FOR UPDATE (no row: NOT_FOUND), the checks, UPDATE bookings ...
\* RETURNING *, and, for a booking with no seat, INSERT INTO booking_events
SelectBooking(t) ==
  /\ task[t].pc = "selectBooking"
  /\ LET id == task[t].cmd.bookingId IN
       IF id \notin DOMAIN bookings
         THEN Fail(t, "NOT_FOUND", "none")
         ELSE /\ CanLockBooking(t, id)
              /\ LET existing == bookings[id]
                     b == BookingAfter(t, existing)
                     err == CheckError(t, existing)
                 IN IF err # "none"
                      THEN Fail(t, err, IF err = "INVALID_BOOKING_STATE"
                                          THEN existing.status ELSE "none")
                      ELSE /\ task' = [task EXCEPT ![t] =
                                [@ EXCEPT !.pc = IF existing.seatNumber # NoSeat
                                                   THEN "updateSeat" ELSE "commit",
                                          !.lockB = {id}, !.txB = {b}, !.ret = {b},
                                          !.refund = Refund(t, existing),
                                          !.txE = {StoredEvent(t, b, now,
                                                               Refund(t, existing))}]]
                           /\ UNCHANGED <<now, bookings, seats, events, bus, readSide>>

\* the row the transaction wrote
TxBooking(t) == CHOOSE r \in task[t].txB : TRUE

\* UPDATE seat_availability ... WHERE schedule_id = $ AND seat_number = $:
\* takes the row lock (waiting for its holder) and rewrites the row as it then
\* is; no row, no effect.  Then INSERT INTO booking_events.
UpdateSeat(t) ==
  /\ task[t].pc = "updateSeat"
  /\ LET k == <<TxBooking(t).scheduleId, TxBooking(t).seatNumber>> IN
       IF k \notin DOMAIN seats
         THEN task' = [task EXCEPT ![t] = [@ EXCEPT !.pc = "commit"]]
         ELSE /\ CanLockSeat(t, k)
              /\ task' = [task EXCEPT ![t] =
                   [@ EXCEPT !.pc = "commit", !.lockS = {k},
                             !.txS = {[key |-> k,
                                       row |-> SeatAfter(t, TxBooking(t), seats[k])]}]]
  /\ UNCHANGED <<now, bookings, seats, events, bus, readSide>>

\* a handler that commits and returns without publishing
CommitWithoutPublish(t) ==
  /\ task[t].pc = "commit"
  /\ bookings' = TablesAfterCommit(t).bookings
  /\ seats' = TablesAfterCommit(t).seats
  /\ events' = TablesAfterCommit(t).events
  /\ task' = [task EXCEPT ![t] =
                [IdleTask EXCEPT !.pc = "done", !.op = task[t].op, !.result = "ok",
                                 !.ret = task[t].ret, !.refund = task[t].refund]]
  /\ UNCHANGED <<now, bus, readSide>>

\* COMMIT: the statements take effect together and the row locks go
Commit(t) ==
  /\ task[t].pc = "commit"
  /\ bookings' = TablesAfterCommit(t).bookings
  /\ seats' = TablesAfterCommit(t).seats
  /\ events' = TablesAfterCommit(t).events
  /\ task' = [task EXCEPT ![t] =
                [@ EXCEPT !.pc = "publish", !.lockB = {}, !.lockS = {},
                          !.txB = {}, !.txS = {}, !.txE = {}]]
  /\ UNCHANGED <<now, bus, readSide>>

\* a statement of the transaction (or connect, BEGIN, COMMIT) throws
StoreFailure(t) ==
  /\ task[t].pc \in InTx
  /\ Fail(t, "STORE_ERROR", "none")

\* statusCode of each AppError subclass the handlers and the routes throw
statusCode(err) ==
  CASE err = "BAD_REQUEST" -> 400
    [] err = "FORBIDDEN" -> 403
    [] err = "NOT_FOUND" -> 404
    [] err \in {"CONFLICT", "INSUFFICIENT_SEATS", "INVALID_BOOKING_STATE"} -> 409
    [] err = "VALIDATION_ERROR" -> 422
    [] err = "SERVICE_UNAVAILABLE" -> 503

\* the response of the error middleware to an error a route passes to next():
\* an AppError answers with its statusCode and code, any other error (one
\* thrown by the store's driver is a plain Error) with 500 INTERNAL_ERROR
errorHandler(err) ==
  IF err \in {"BAD_REQUEST", "FORBIDDEN", "NOT_FOUND", "CONFLICT", "INSUFFICIENT_SEATS",
              "INVALID_BOOKING_STATE", "VALIDATION_ERROR", "SERVICE_UNAVAILABLE"}
    THEN [status |-> statusCode(err), code |-> err]
    ELSE [status |-> 500, code |-> "INTERNAL_ERROR"]

\* ---------------------------------------------------------------- publish
\* createBaseEvent and the payload each eventPublisher method builds from
\* the returned booking
Returned(t) == CHOOSE r \in task[t].ret : TRUE

PublishedPayload(t) ==
  LET b == Returned(t) IN
    CASE task[t].op = "Book" ->
           [bookingId |-> b.id, userId |-> b.userId, scheduleId |-> b.scheduleId,
            seatNumber |-> b.seatNumber, price |-> b.price]
      [] task[t].op = "Reserve" ->
           [bookingId |-> b.id, userId |-> b.userId, scheduleId |-> b.scheduleId,
            seatNumber |-> b.seatNumber, price |-> b.price, expiresAt |-> b.expiresAt]
      [] task[t].op = "Confirm" ->
           [bookingId |-> b.id, userId |-> b.userId,
            paymentId |-> task[t].cmd.paymentId]
      [] task[t].op = "Cancel" ->
           [bookingId |-> b.id, userId |-> b.userId,
            refundAmount |-> task[t].refund]

Message(t) ==
  [key |-> Returned(t).id,
   eventId |-> FreshBusEventId(Returned(t).id, EventType(task[t].op)),
   eventType |-> EventType(task[t].op), aggregateId |-> Returned(t).id,
   version |-> 1, payload |-> PublishedPayload(t)]

\* a handler that lets the error of the publish escape
ReturnsPublishError(t, sent) ==
  IF sent
    THEN [IdleTask EXCEPT !.pc = "done", !.op = task[t].op, !.result = "ok",
                          !.ret = task[t].ret, !.refund = task[t].refund,
                          !.published = "sent"]
    ELSE [IdleTask EXCEPT !.pc = "done", !.result = "INTERNAL_ERROR",
                          !.published = "failed"]

\* the handler returns the booking once the publish has been tried; the task
\* keeps the outcome until the response is sent
Returns(t, sent) ==
  [IdleTask EXCEPT !.pc = "done", !.op = task[t].op, !.result = "ok",
                   !.ret = task[t].ret, !.refund = task[t].refund,
                   !.published = IF sent THEN "sent" ELSE "failed"]

\* producer.send resolves
PublishOk(t) ==
  /\ task[t].pc = "publish"
  /\ bus' = [bus EXCEPT ![Message(t).key] = Append(@, Message(t))]
  /\ task' = [task EXCEPT ![t] = Returns(t, TRUE)]
  /\ UNCHANGED <<now, bookings, seats, events, readSide>>

\* producer.send throws: the handler logs the error and goes on
PublishFail(t) ==
  /\ task[t].pc = "publish"
  /\ task' = [task EXCEPT ![t] = Returns(t, FALSE)]
  /\ UNCHANGED <<now, bookings, seats, events, bus, readSide>>

\* the response is sent; the task slot is free for the next request
Finish(t) ==
  /\ task[t].pc = "done"
  /\ task' = [task EXCEPT ![t] = IdleTask]
  /\ UNCHANGED <<now, bookings, seats, events, bus, readSide>>

\* time passes; the step is no shorter than the time to live of a cache entry
\* (300 s for a ticket, 60 s for a list), so every entry has run out
Tick ==
  /\ now + TickMinutes <= TickMinutes * MaxTicks
  /\ now' = now + TickMinutes
  /\ cache' = EmptyCache
  /\ UNCHANGED <<bookings, seats, events, task, bus, readDb, offset, redelivered, qtask>>

Step(t) ==
  \/ SeatCheck(t)
  \/ Insert(t)
  \/ SelectBooking(t)
  \/ UpdateSeat(t)
  \/ Commit(t)
  \/ PublishOk(t)
  \/ PublishFail(t)

Next ==
  \/ Tick
  \/ \E t \in Tasks :
       \/ Start(t)
       \/ Step(t)
       \/ StoreFailure(t)
       \/ Finish(t)

Spec == Init /\ [][Next]_vars

\* the write side with Reserve requests of every duration, one request at a time
NextReserve ==
  \/ Tick
  \/ \E t \in {1} :
       \/ Start(t)
       \/ ReserveCall(t)
       \/ ReserveRoute(t)
       \/ Step(t)
       \/ Finish(t)

SpecReserve == Init /\ [][NextReserve]_vars

\* ------------------------------------------------------------------ race
\* Requests for one seat that is AVAILABLE, all taken before any of them has
\* run its seat check: Book or Reserve, by any user, with any duration.
RaceRequests ==
  {r \in {"Book", "Reserve"} \X (Commands("Book") \cup Commands("Reserve")) :
     /\ r[2] \in Commands(r[1])
     /\ Valid(r[1], r[2])
     /\ r[2].seatNumber # NoSeat}

InitRace ==
  /\ now = 0
  /\ bookings = <<>>
  /\ seats = [k \in SeatRows |->
                [status |-> "AVAILABLE", bookingId |-> NoBooking, lockedUntil |-> NoTime]]
  /\ events = {}
  /\ bus = [b \in BookingIds |-> <<>>]
  /\ readDb = EmptyReadDb
  /\ offset = [b \in BookingIds |-> 0]
  /\ redelivered = 0
  /\ cache = EmptyCache
  /\ qtask = [q \in QueryTasks |-> IdleQuery]
  /\ \E k \in SeatRows : \E rs \in [Tasks -> RaceRequests] :
       /\ \A t \in Tasks : SeatKey(rs[t][2]) = k
       /\ task = [t \in Tasks |-> Taken(rs[t][1], rs[t][2])]

RaceStep(t) ==
  \/ SeatCheck(t)
  \/ Commit(t)
  \/ PublishOk(t)
  \/ PublishFail(t)

NextRace == Tick \/ \E t \in Tasks : RaceStep(t)

SpecRace == InitRace /\ [][NextRace]_vars

\* ----------------------------------------------------------------- fence
\* Confirm and Cancel requests for one booking
FenceRequests(b) ==
  {r \in {"Confirm", "Cancel"} \X (Commands("Confirm") \cup Commands("Cancel")) :
     /\ r[2] \in Commands(r[1])
     /\ r[2].bookingId = b}

\* two requests for one existing booking arrive together: each handler has
\* sent BEGIN before either has selected the booking
StartBoth ==
  /\ \A t \in Tasks : task[t].pc = "idle"
  /\ RowsClaimed + Cardinality(Tasks) <= MaxRows
  /\ \E b \in DOMAIN bookings : \E rs \in [Tasks -> FenceRequests(b)] :
       task' = [t \in Tasks |-> Taken(rs[t][1], rs[t][2])]
  /\ UNCHANGED <<now, bookings, seats, events, bus, readSide>>

\* bookings are created one request after another, and a Confirm or a Cancel
\* comes only together with a second one for the same booking
NextFence ==
  \/ Tick
  \/ StartBoth
  \/ \E t \in Tasks :
       \/ Start(t) /\ task'[t].op \in {"Book", "Reserve"}
       \/ Step(t)
       \/ Finish(t)

SpecFence == Init /\ [][NextFence]_vars

\* two Confirm requests for one existing booking arrive together, each with
\* the id of its payment
ConfirmBoth ==
  /\ \A t \in Tasks : task[t].pc = "idle"
  /\ RowsClaimed + Cardinality(Tasks) <= MaxRows
  /\ \E b \in DOMAIN bookings : \E ps \in [Tasks -> PaymentIds \cup {"P8"}] :
       task' = [t \in Tasks |->
                  Taken("Confirm", [NoCmd EXCEPT !.bookingId = b, !.paymentId = ps[t]])]
  /\ UNCHANGED <<now, bookings, seats, events, bus, readSide>>

\* bookings are created one request after another, a Confirm comes only
\* together with a second one for the same booking, and no statement fails
NextConfirm ==
  \/ Tick
  \/ ConfirmBoth
  \/ \E t \in Tasks :
       \/ Start(t) /\ task'[t].op \in {"Book", "Reserve"}
       \/ Step(t)
       \/ Finish(t)

SpecConfirm == Init /\ [][NextConfirm]_vars

\* ------------------------------------------------------------- projector
\* GREATEST(a, b)
Greatest(a, b) == IF a >= b THEN a ELSE b

\* INSERT INTO user_tickets_view ... VALUES (..., status, ...)
\* ON CONFLICT (id) DO UPDATE SET status = EXCLUDED.status
UpsertTicket(db, p, status) ==
  IF p.bookingId \in DOMAIN db.tickets
    THEN [db EXCEPT !.tickets[p.bookingId].status = status]
    ELSE [db EXCEPT !.tickets =
            [b \in DOMAIN db.tickets \cup {p.bookingId} |->
               IF b = p.bookingId
                 THEN [id |-> p.bookingId, userId |-> p.userId,
                       scheduleId |-> p.scheduleId, seatNumber |-> p.seatNumber,
                       price |-> p.price, status |-> status]
                 ELSE db.tickets[b]]]

\* UPDATE user_tickets_view SET status = $1 WHERE id = $2: no row, no effect
SetTicketStatus(db, id, status) ==
  IF id \in DOMAIN db.tickets THEN [db EXCEPT !.tickets[id].status = status] ELSE db

\* an upsert that adds the delta without GREATEST(0, ...)
updateUnclamped(db, scheduleId, delta) ==
  [db EXCEPT !.availability =
     [s \in DOMAIN db.availability \cup {scheduleId} |->
        IF s # scheduleId THEN db.availability[s]
        ELSE IF s \in DOMAIN db.availability
               THEN db.availability[s] + delta
               ELSE delta]]

\* INSERT INTO schedule_availability_view ... VALUES ($1, 50, GREATEST(0, $2))
\* ON CONFLICT (schedule_id) DO UPDATE SET booked_seats = GREATEST(0, booked_seats + $2)
updateScheduleAvailability(db, scheduleId, delta) ==
  [db EXCEPT !.availability =
     [s \in DOMAIN db.availability \cup {scheduleId} |->
        IF s # scheduleId THEN db.availability[s]
        ELSE IF s \in DOMAIN db.availability
               THEN Greatest(0, db.availability[s] + delta)
               ELSE Greatest(0, delta)]]

\* the upsert of row 'ticket_projector' of projection_checkpoints
updateCheckpoint(db, eventId) == [db EXCEPT !.checkpoint = eventId]

\* each handler: the read store after each of its statements, in order (the
\* statements run one by one on the pool, in no transaction)
handleTicketBooked(db, m) ==
  LET d1 == UpsertTicket(db, m.payload, PENDING) IN
    <<d1, updateScheduleAvailability(d1, m.payload.scheduleId, 1)>>

handleTicketReserved(db, m) ==
  LET d1 == UpsertTicket(db, m.payload, RESERVED) IN
    <<d1, updateScheduleAvailability(d1, m.payload.scheduleId, 1)>>

handleTicketConfirmed(db, m) ==
  <<SetTicketStatus(db, m.payload.bookingId, CONFIRMED)>>

\* SELECT schedule_id FROM user_tickets_view; UPDATE; if (booking) the counter
handleTicketCancelled(db, m) ==
  LET id == m.payload.bookingId
      d1 == SetTicketStatus(db, id, CANCELLED)
  IN IF id \in DOMAIN db.tickets
       THEN <<d1, updateScheduleAvailability(d1, db.tickets[id].scheduleId, -1)>>
       ELSE <<d1>>

\* the switch of processMessage; any other event type is logged and skipped
Handled(db, m) ==
  CASE m.eventType = "TICKET_BOOKED" -> handleTicketBooked(db, m)
    [] m.eventType = "TICKET_RESERVED" -> handleTicketReserved(db, m)
    [] m.eventType = "TICKET_CONFIRMED" -> handleTicketConfirmed(db, m)
    [] m.eventType = "TICKET_CANCELLED" -> handleTicketCancelled(db, m)
    [] OTHER -> <<>>

\* processMessage: the read store before the message, after each statement of
\* its handler, and last after updateCheckpoint
processMessage(db, m) ==
  LET after == <<db>> \o Handled(db, m) IN
    after \o <<updateCheckpoint(after[Len(after)], m.eventId)>>

\* redis.del(key) and redis.delPattern(`${cacheKeys.userTickets(userId)}:*`)
Without(f, keys) == [k \in DOMAIN f \ keys |-> f[k]]

DelTicket(c, id) == [c EXCEPT !.ticket = Without(c.ticket, {id})]

DelUserTickets(c, userId) ==
  [c EXCEPT !.userTickets =
     Without(c.userTickets, {k \in DOMAIN c.userTickets : k.userId = userId})]

\* the cache once the handler of m has made its calls: handleTicketBooked and
\* handleTicketReserved delete the user's lists, handleTicketConfirmed and
\* handleTicketCancelled the ticket and the user's lists
Invalidate(c, m) ==
  CASE m.eventType \in {"TICKET_BOOKED", "TICKET_RESERVED"} ->
         DelUserTickets(c, m.payload.userId)
    [] m.eventType \in {"TICKET_CONFIRMED", "TICKET_CANCELLED"} ->
         DelUserTickets(DelTicket(c, m.payload.bookingId), m.payload.userId)
    [] OTHER -> c

\* the cache when processMessage has got to place k of its trail: each
\* handler makes its cache calls after its first read-store write
InvalidatedAt(c, m, k) == IF k >= 2 THEN Invalidate(c, m) ELSE c

\* the read store once message m is processed
Projected(db, m) == processMessage(db, m)[Len(processMessage(db, m))]

\* the message of key b the consumer is given next
NextMessage(b) == bus[b][offset[b] + 1]

\* eachMessage, the handler resolving: the consumer goes on to the next offset
EachMessage(b) ==
  /\ offset[b] < Len(bus[b])
  /\ readDb' = Projected(readDb, NextMessage(b))
  /\ cache' = Invalidate(cache, NextMessage(b))
  /\ offset' = [offset EXCEPT ![b] = @ + 1]
  /\ UNCHANGED <<now, bookings, seats, events, task, bus, redelivered, qtask>>

\* eachMessage, a statement of the handler or the checkpoint upsert throwing:
\* processMessage rethrows, eachMessage catches and logs, and the consumer
\* goes on to the next offset; the statements before the failing one stay
EachMessageFails(b) ==
  /\ offset[b] < Len(bus[b])
  /\ LET trail == processMessage(readDb, NextMessage(b)) IN
       \E k \in 1..(Len(trail) - 1) :
         /\ readDb' = trail[k]
         /\ cache' = InvalidatedAt(cache, NextMessage(b), k)
  /\ offset' = [offset EXCEPT ![b] = @ + 1]
  /\ UNCHANGED <<now, bookings, seats, events, task, bus, redelivered, qtask>>

\* the consumer restarts, or its group rebalances, before the offsets it is
\* past are committed: it is given the messages after the last committed
\* offset again
ConsumerRestarts(b) ==
  /\ redelivered < MaxRedeliveries
  /\ \E i \in 0..(offset[b] - 1) : offset' = [offset EXCEPT ![b] = i]
  /\ redelivered' = redelivered + 1
  /\ UNCHANGED <<now, bookings, seats, events, task, bus, readDb, cache, qtask>>

\* commands whose store and publish do not fail, with the projector
CommandStep(t) ==
  \/ SeatCheck(t)
  \/ Insert(t)
  \/ SelectBooking(t)
  \/ UpdateSeat(t)
  \/ Commit(t)
  \/ PublishOk(t)

NextReadModel ==
  \/ \E t \in Tasks :
       \/ Start(t)
       \/ CommandStep(t)
       \/ Finish(t)
  \/ \E b \in BookingIds :
       \/ EachMessage(b)
       \/ EachMessageFails(b)
       \/ ConsumerRestarts(b)

SpecReadModel == Init /\ [][NextReadModel]_vars

\* ------------------------------------------------------------- liveness
\* The service with nothing failing: every store statement and every publish
\* succeeds and the projector processes every message it is given.  The
\* event loop runs every handler that can go on, the consumer is given every
\* message of the topic, and time passes.
NextLive ==
  \/ Tick
  \/ \E t \in Tasks :
       \/ Start(t)
       \/ CommandStep(t)
       \/ Finish(t)
  \/ \E b \in BookingIds : EachMessage(b)

Fairness ==
  /\ WF_vars(Tick)
  /\ \A t \in Tasks : WF_vars(CommandStep(t) \/ Finish(t))
  /\ \A b \in BookingIds : WF_vars(EachMessage(b))

SpecLive == Init /\ [][NextLive]_vars /\ Fairness

\* ---------------------------------------------------------------- serial
\* A valid request arrives while no other is being served; the rows it may
\* add fit MaxSerialRows.
StartAlone(t) ==
  /\ \A o \in Tasks : task[o].pc = "idle"
  /\ \E op \in {"Book", "Reserve", "Confirm", "Cancel"} : \E c \in Commands(op) :
       /\ Valid(op, c)
       /\ RowsClaimed + Adds(op) <= MaxSerialRows
       /\ op \in {"Book", "Reserve"} => Cardinality(DOMAIN bookings) < MaxBookings
       /\ task' = [task EXCEPT ![t] = Taken(op, c)]
  /\ UNCHANGED <<now, bookings, seats, events, bus, readSide>>

\* the write side serving one request at a time, store and bus never failing
NextSerial ==
  \/ Tick
  \/ \E t \in {1} :
       \/ StartAlone(t)
       \/ CommandStep(t)
       \/ Finish(t)

SpecSerial == Init /\ [][NextSerial]_vars

\* the rows of bookings and booking_events when requests come in pairs
MaxLockRows == 5

\* two valid requests arrive together, after bookings of seats made one at a
\* time
StartPair ==
  /\ \A t \in Tasks : task[t].pc = "idle"
  /\ \E ops \in [Tasks -> {"Book", "Reserve", "Confirm", "Cancel"}] :
       /\ RowsClaimed + Adds(ops[1]) + Adds(ops[2]) <= MaxLockRows
       /\ Cardinality(DOMAIN bookings)
            + Cardinality({t \in Tasks : ops[t] \in {"Book", "Reserve"}}) <= MaxBookings
       /\ \E c1 \in Commands(ops[1]) : \E c2 \in Commands(ops[2]) :
            /\ Valid(ops[1], c1)
            /\ Valid(ops[2], c2)
            /\ task' = [t \in Tasks |->
                         IF t = 1 THEN Taken(ops[1], c1) ELSE Taken(ops[2], c2)]
  /\ UNCHANGED <<now, bookings, seats, events, bus, readSide>>

\* the write side with seats booked one at a time and requests in pairs,
\* store and bus never failing
NextLocks ==
  \/ Tick
  \/ StartPair
  \/ \E t \in {1} : /\ StartAlone(t)
                     /\ task'[t].op \in {"Book", "Reserve"}
                     /\ task'[t].cmd.seatNumber # NoSeat
                     /\ RowsClaimed + 2 <= MaxLockRows
  \/ \E t \in Tasks :
       \/ CommandStep(t)
       \/ Finish(t)

\* the event loop runs every handler that can go on
SpecLocks ==
  Init /\ [][NextLocks]_vars /\ \A t \in Tasks : WF_vars(CommandStep(t) \/ Finish(t))

\* --------------------------------------------------------------- queries
\* f with the entry of key k set to v
With(f, k, v) == [x \in DOMAIN f \cup {k} |-> IF x = k THEN v ELSE f[x]]

\* the outcome of a query that has ended: its error or "ok", and what it returns
Answered(query, err, ret, hit) ==
  [IdleQuery EXCEPT !.pc = "done", !.query = query, !.result = err, !.ret = ret,
                    !.hit = hit]

\* GET /:bookingId, for the authenticated user (or, called without one, none)
DetailsQueries ==
  {[NoQuery EXCEPT !.bookingId = b, !.userId = u] :
     b \in BookingIds, u \in Users \cup {NoUser}}

\* validateQuery of getTicketDetailsHandler
ValidDetails(query) == query.bookingId # NoBooking /\ query.userId # NoUser

\* a handler that returns the cached ticket to whoever asks
DetailsTakenUnchecked(query) ==
  IF ~ValidDetails(query) THEN Answered(query, "BAD_REQUEST", {}, FALSE)
  ELSE IF query.bookingId \in DOMAIN cache.ticket
    THEN Answered(query, "ok", {cache.ticket[query.bookingId]}, TRUE)
    ELSE [IdleQuery EXCEPT !.pc = "read", !.kind = "details", !.query = query]

\* getTicketDetailsHandler up to its first read of the read store:
\* validateQuery, redis.get, and on a hit the ownership check on the cached ticket
DetailsTaken(query) ==
  IF ~ValidDetails(query) THEN Answered(query, "BAD_REQUEST", {}, FALSE)
  ELSE IF query.bookingId \in DOMAIN cache.ticket
    THEN LET cached == cache.ticket[query.bookingId] IN
           IF cached.userId # query.userId
             THEN Answered(query, "FORBIDDEN", {}, TRUE)
             ELSE Answered(query, "ok", {cached}, TRUE)
    ELSE [IdleQuery EXCEPT !.pc = "read", !.kind = "details", !.query = query]

DetailsGet(q) ==
  /\ qtask[q].pc = "idle"
  /\ \E query \in DetailsQueries :
       qtask' = [qtask EXCEPT ![q] = DetailsTaken(query)]
  /\ UNCHANGED <<now, bookings, seats, events, task, bus, readDb, offset,
                 redelivered, cache>>

\* SELECT ... FROM user_tickets_view WHERE id = $1, no row: BookingNotFoundError;
\* then the ownership check on the row
DetailsRead(q) ==
  /\ qtask[q].pc = "read"
  /\ qtask[q].kind = "details"
  /\ LET query == qtask[q].query IN
       qtask' = [qtask EXCEPT ![q] =
         IF query.bookingId \notin DOMAIN readDb.tickets
           THEN Answered(query, "NOT_FOUND", {}, FALSE)
         ELSE IF readDb.tickets[query.bookingId].userId # query.userId
           THEN Answered(query, "FORBIDDEN", {}, FALSE)
         ELSE [@ EXCEPT !.pc = "set", !.found = {readDb.tickets[query.bookingId]}]]
  /\ UNCHANGED <<now, bookings, seats, events, task, bus, readDb, offset,
                 redelivered, cache>>

\* redis.set(cacheKey, ticket, CACHE_TTL_SECONDS) and return ticket
DetailsSet(q) ==
  /\ qtask[q].pc = "set"
  /\ qtask[q].kind = "details"
  /\ \E ticket \in qtask[q].found :
       /\ cache' = [cache EXCEPT !.ticket = With(cache.ticket, ticket.id, ticket)]
       /\ qtask' = [qtask EXCEPT ![q] = Answered(qtask[q].query, "ok", {ticket}, FALSE)]
  /\ UNCHANGED <<now, bookings, seats, events, task, bus, readDb, offset, redelivered>>

\* the response is sent
QueryFinish(q) ==
  /\ qtask[q].pc = "done"
  /\ qtask' = [qtask EXCEPT ![q] = IdleQuery]
  /\ UNCHANGED <<now, bookings, seats, events, task, bus, readDb, offset,
                 redelivered, cache>>

DEFAULT_PAGE == 1
DEFAULT_LIMIT == 10
MAX_LIMIT == 100

\* GET /my-tickets of an authenticated user who books; page and limit are {}
\* when absent and {n} when given, status is {} or the status to filter on
ListQueries ==
  {[NoQuery EXCEPT !.userId = u, !.page = p] : u \in Bookers, p \in {{-1}, {0}}}
  \cup {[NoQuery EXCEPT !.userId = u, !.limit = l, !.status = s] :
           u \in Bookers, l \in {{}, {MAX_LIMIT + 1}}, s \in {{}, {CONFIRMED}}}

\* schemas.getUserTickets: page at least 1, limit from 1 to 100
ListSchema(query) ==
  /\ \A p \in query.page : p >= 1
  /\ \A l \in query.limit : l >= 1 /\ l <= 100

\* validateQuery of getUserTicketsHandler: `query.page && query.page < 1`
\* and `query.limit && query.limit < 1` throw, and 0 is falsy
ValidList(query) ==
  /\ query.userId # NoUser
  /\ \A p \in query.page : ~(p # 0 /\ p < 1)
  /\ \A l \in query.limit : ~(l # 0 /\ l < 1)

\* page = query.page || DEFAULT_PAGE
PageOf(query) ==
  IF query.page \in {{}, {0}} THEN DEFAULT_PAGE ELSE CHOOSE p \in query.page : TRUE

\* limit = Math.min(query.limit || DEFAULT_LIMIT, MAX_LIMIT)
LimitOf(query) ==
  LET given == IF query.limit \in {{}, {0}} THEN DEFAULT_LIMIT
               ELSE CHOOSE l \in query.limit : TRUE
  IN IF given < MAX_LIMIT THEN given ELSE MAX_LIMIT

\* `${cacheKeys.userTickets(query.userId)}:page:${page}:limit:${limit}`
ListKey(query) ==
  [userId |-> query.userId, page |-> PageOf(query), limit |-> LimitOf(query)]

\* the rows WHERE user_id = $1 [AND status = $2]
ListRows(db, query) ==
  {db.tickets[b] : b \in {x \in DOMAIN db.tickets :
     /\ db.tickets[x].userId = query.userId
     /\ \A st \in query.status : db.tickets[x].status = st}}

\* ORDER BY created_at DESC LIMIT limit OFFSET (page - 1) * limit, as the set
\* of its rows: the user has fewer rows than any limit taken here, so the
\* first page holds them all and the later pages none
PageRows(db, query) ==
  IF (PageOf(query) - 1) * LimitOf(query) >= Cardinality(ListRows(db, query))
    THEN {} ELSE ListRows(db, query)

\* getUserTicketsHandler up to its first read of the read store:
\* validateQuery and, without a status filter, redis.get
ListTaken(query) ==
  IF ~ValidList(query) THEN Answered(query, "BAD_REQUEST", {}, FALSE)
  ELSE IF query.status = {} /\ ListKey(query) \in DOMAIN cache.userTickets
    THEN Answered(query, "ok", {cache.userTickets[ListKey(query)]}, TRUE)
    ELSE [IdleQuery EXCEPT !.pc = "read", !.kind = "list", !.query = query]

\* getUserTicketsHandler called with a query
ListGet(q) ==
  /\ qtask[q].pc = "idle"
  /\ \E query \in ListQueries :
       qtask' = [qtask EXCEPT ![q] = ListTaken(query)]
  /\ UNCHANGED <<now, bookings, seats, events, task, bus, readDb, offset,
                 redelivered, cache>>

\* GET /my-tickets: validate(schemas.getUserTickets, 'query') passes a
\* ValidationError to the error handler, or the handler is called
ListRoute(q) ==
  /\ qtask[q].pc = "idle"
  /\ \E query \in ListQueries :
       qtask' = [qtask EXCEPT ![q] =
         IF ListSchema(query) THEN ListTaken(query)
         ELSE Answered(query, "VALIDATION_ERROR", {}, FALSE)]
  /\ UNCHANGED <<now, bookings, seats, events, task, bus, readDb, offset,
                 redelivered, cache>>

\* SELECT COUNT(*) FROM user_tickets_view WHERE user_id = $1 [AND status = $2]
ListCount(q) ==
  /\ qtask[q].pc = "read"
  /\ qtask[q].kind = "list"
  /\ qtask' = [qtask EXCEPT ![q].pc = "select",
                            ![q].found = {Cardinality(ListRows(readDb, qtask[q].query))}]
  /\ UNCHANGED <<now, bookings, seats, events, task, bus, readDb, offset,
                 redelivered, cache>>

\* the page SELECT and the result record; with a status filter the result is
\* returned as it is
ListSelect(q) ==
  /\ qtask[q].pc = "select"
  /\ \E total \in qtask[q].found :
       LET query == qtask[q].query
           result == [data |-> PageRows(readDb, query), total |-> total,
                      page |-> PageOf(query), limit |-> LimitOf(query),
                      totalPages |-> (total + LimitOf(query) - 1) \div LimitOf(query)]
       IN qtask' = [qtask EXCEPT ![q] =
            IF query.status # {} THEN Answered(query, "ok", {result}, FALSE)
            ELSE [@ EXCEPT !.pc = "set", !.found = {result}]]
  /\ UNCHANGED <<now, bookings, seats, events, task, bus, readDb, offset,
                 redelivered, cache>>

\* redis.set(cacheKey, result, CACHE_TTL_SECONDS) and return result
ListSet(q) ==
  /\ qtask[q].pc = "set"
  /\ qtask[q].kind = "list"
  /\ \E result \in qtask[q].found :
       /\ cache' = [cache EXCEPT !.userTickets =
                      With(cache.userTickets, ListKey(qtask[q].query), result)]
       /\ qtask' = [qtask EXCEPT ![q] = Answered(qtask[q].query, "ok", {result}, FALSE)]
  /\ UNCHANGED <<now, bookings, seats, events, task, bus, readDb, offset, redelivered>>

\* the service as the callers of the list query see it, its commands coming
\* one at a time
NextList ==
  \/ \E t \in {1} :
       \/ Start(t)
       \/ CommandStep(t)
       \/ Finish(t)
  \/ \E b \in BookingIds : EachMessage(b)
  \/ \E q \in {1} :
       \/ ListGet(q)
       \/ ListRoute(q)
       \/ ListCount(q)
       \/ ListSelect(q)
       \/ ListSet(q)
       \/ QueryFinish(q)

SpecList == Init /\ [][NextList]_vars

\* the service as its callers see it: commands whose store and publish do
\* not fail, the projector, and queries
NextQuery ==
  \/ \E t \in Tasks :
       \/ Start(t)
       \/ CommandStep(t)
       \/ Finish(t)
  \/ \E b \in BookingIds : EachMessage(b)
  \/ \E q \in {1} :
       \/ DetailsGet(q)
       \/ DetailsRead(q)
       \/ DetailsSet(q)
       \/ QueryFinish(q)

SpecQuery == Init /\ [][NextQuery]_vars

\* the read side under redelivery: commands one at a time, the projector with
\* a consumer that may restart, and ticket-details queries
NextCache ==
  \/ \E t \in {1} :
       \/ Start(t)
       \/ CommandStep(t)
       \/ Finish(t)
  \/ \E b \in BookingIds :
       \/ EachMessage(b)
       \/ ConsumerRestarts(b)
  \/ \E q \in {1} :
       \/ DetailsGet(q)
       \/ DetailsRead(q)
       \/ DetailsSet(q)
       \/ QueryFinish(q)

SpecCache == Init /\ [][NextCache]_vars

\* ------------------------------------------------------- cache unreachable
\* a redis.set that lets the error through to the handler
DetailsDownThrows(q) ==
  /\ \/ /\ qtask[q].pc = "idle"
        /\ \E query \in DetailsQueries :
             qtask' = [qtask EXCEPT ![q] =
               IF ~ValidDetails(query) THEN Answered(query, "BAD_REQUEST", {}, FALSE)
               ELSE [IdleQuery EXCEPT !.pc = "read", !.kind = "details",
                                      !.query = query]]
     \/ /\ qtask[q].pc = "set"
        /\ qtask[q].kind = "details"
        /\ qtask' = [qtask EXCEPT ![q] =
                       Answered(qtask[q].query, "INTERNAL_ERROR", {}, FALSE)]
  /\ UNCHANGED <<now, bookings, seats, events, task, bus, readDb, offset,
                 redelivered, cache>>

\* getTicketDetailsHandler while Redis cannot be reached: redis.get catches
\* the error and returns null, redis.set catches it and returns
DetailsDown(q) ==
  /\ \/ /\ qtask[q].pc = "idle"
        /\ \E query \in DetailsQueries :
             qtask' = [qtask EXCEPT ![q] =
               IF ~ValidDetails(query) THEN Answered(query, "BAD_REQUEST", {}, FALSE)
               ELSE [IdleQuery EXCEPT !.pc = "read", !.kind = "details",
                                      !.query = query]]
     \/ /\ qtask[q].pc = "set"
        /\ qtask[q].kind = "details"
        /\ qtask' = [qtask EXCEPT ![q] =
                       Answered(qtask[q].query, "ok", qtask[q].found, FALSE)]
  /\ UNCHANGED <<now, bookings, seats, events, task, bus, readDb, offset,
                 redelivered, cache>>

\* getUserTicketsHandler while Redis cannot be reached
ListDown(q) ==
  /\ \/ /\ qtask[q].pc = "idle"
        /\ \E query \in ListQueries :
             qtask' = [qtask EXCEPT ![q] =
               IF ~ValidList(query) THEN Answered(query, "BAD_REQUEST", {}, FALSE)
               ELSE [IdleQuery EXCEPT !.pc = "read", !.kind = "list", !.query = query]]
     \/ /\ qtask[q].pc = "set"
        /\ qtask[q].kind = "list"
        /\ qtask' = [qtask EXCEPT ![q] =
                       Answered(qtask[q].query, "ok", qtask[q].found, FALSE)]
  /\ UNCHANGED <<now, bookings, seats, events, task, bus, readDb, offset,
                 redelivered, cache>>

\* eachMessage while Redis cannot be reached: redis.del and redis.delPattern
\* catch the error and return, the handler goes on
EachMessageDown(b) ==
  /\ offset[b] < Len(bus[b])
  /\ readDb' = Projected(readDb, NextMessage(b))
  /\ offset' = [offset EXCEPT ![b] = @ + 1]
  /\ UNCHANGED <<now, bookings, seats, events, task, bus, redelivered, cache, qtask>>

\* the service with every cache operation failing, commands one at a time
NextDown ==
  \/ \E t \in {1} :
       \/ Start(t)
       \/ CommandStep(t)
       \/ Finish(t)
  \/ \E b \in BookingIds : EachMessageDown(b)
  \/ \E q \in {1} :
       \/ DetailsDown(q)
       \/ DetailsRead(q)
       \/ ListDown(q)
       \/ ListCount(q)
       \/ ListSelect(q)
       \/ QueryFinish(q)

SpecDown == Init /\ [][NextDown]_vars

\* ---------------------------------------------------------------- expiry
\* eventPublisher.publishTicketExpired(bookingId, userId): a TICKET_EXPIRED
\* event of a booking is sent to the topic, once per booking here
publishTicketExpired(b) ==
  /\ b \in DOMAIN bookings
  /\ \A i \in 1..Len(bus[b]) : bus[b][i].eventType # "TICKET_EXPIRED"
  /\ bus' = [bus EXCEPT ![b] = Append(@,
              [key |-> b, eventId |-> FreshBusEventId(b, "TICKET_EXPIRED"),
               eventType |-> "TICKET_EXPIRED", aggregateId |-> b, version |-> 1,
               payload |-> [bookingId |-> b, userId |-> bookings[b].userId]])]
  /\ UNCHANGED <<now, bookings, seats, events, task, readSide>>

\* the projector given TICKET_EXPIRED events too, commands one at a time
NextExpired ==
  \/ \E t \in {1} :
       \/ Start(t)
       \/ CommandStep(t)
       \/ Finish(t)
  \/ \E b \in BookingIds :
       \/ publishTicketExpired(b)
       \/ EachMessage(b)

SpecExpired == Init /\ [][NextExpired]_vars

\* queries running side by side with each other and with the projector:
\* commands one at a time, and ticket-details queries of the users who book
NextStale ==
  \/ \E t \in {1} :
       \/ Start(t)
       \/ CommandStep(t)
       \/ Finish(t)
  \/ \E b \in BookingIds : EachMessage(b)
  \/ \E q \in QueryTasks :
       \/ DetailsGet(q) /\ qtask'[q].query.userId \in Bookers
       \/ DetailsRead(q)
       \/ DetailsSet(q)
       \/ QueryFinish(q)

SpecStale == Init /\ [][NextStale]_vars

\* ------------------------------------------------------------ properties
ActiveStatus == {PENDING, RESERVED, CONFIRMED}
TerminalStatus == {CANCELLED, EXPIRED, REFUNDED}

\* C1: in every reachable state no two bookings whose status is PENDING,
\* RESERVED or CONFIRMED share the same (scheduleId, seatNumber) with a
\* non-null seatNumber.
OneActiveBookingPerSeat ==
  \A a, b \in DOMAIN bookings :
    (/\ a # b
     /\ bookings[a].status \in ActiveStatus
     /\ bookings[b].status \in ActiveStatus
     /\ bookings[a].seatNumber # NoSeat)
    => ~(/\ bookings[a].scheduleId = bookings[b].scheduleId
         /\ bookings[a].seatNumber = bookings[b].seatNumber)

\* the requests that hold or have taken the seat
Winners == {t \in Tasks : task[t].pc \in {"commit", "publish"} \/ task[t].result = "ok"}

LegalTransition(old, new) ==
  \/ old.status = PENDING /\ new.status \in {CONFIRMED, CANCELLED}
  \/ /\ old.status = RESERVED
     /\ new.status = CONFIRMED
     /\ new.confirmedAt <= old.expiresAt
  \/ old.status = RESERVED /\ new.status \in {CANCELLED, EXPIRED}
  \/ old.status = CONFIRMED /\ new.status \in {CANCELLED, REFUNDED}

\* the statuses each command may start from
LegalFrom(op) ==
  IF op = "Confirm" THEN {PENDING, RESERVED} ELSE {PENDING, RESERVED, CONFIRMED}

\* task t runs its state check in this step: the booking exists, the caller
\* may act on it, and the store answers
ReachesStateCheck(t) ==
  /\ task[t].pc = "selectBooking"
  /\ task'[t].pc # "selectBooking"
  /\ task'[t].result # "STORE_ERROR"
  /\ task[t].cmd.bookingId \in DOMAIN bookings
  /\ ~(task[t].op = "Cancel" /\ NotOwner(task[t].cmd, bookings[task[t].cmd.bookingId]))

IllegalAttempt(t) ==
  LET row == bookings[task[t].cmd.bookingId] IN
    \/ row.status \notin LegalFrom(task[t].op)
    \/ task[t].op = "Confirm" /\ row.status = RESERVED /\ row.expiresAt < now

LegalStep ==
  /\ \A b \in DOMAIN bookings :
       bookings'[b].status # bookings[b].status =>
         LegalTransition(bookings[b], bookings'[b])
  /\ \A b \in DOMAIN bookings' \ DOMAIN bookings :
       bookings'[b].status \in {PENDING, RESERVED}
  /\ \A t \in Tasks :
       ReachesStateCheck(t) =>
         IF IllegalAttempt(t)
           THEN /\ task'[t].pc = "done"
                /\ task'[t].result = "INVALID_BOOKING_STATE"
                /\ task'[t].errStatus = bookings[task[t].cmd.bookingId].status
                /\ UNCHANGED tables
           ELSE task'[t].result = "none"

\* C3: every change of a booking's status is a legal transition (PENDING to
\* CONFIRMED or CANCELLED; RESERVED to CONFIRMED only if not expired, to
\* CANCELLED or to EXPIRED; CONFIRMED to CANCELLED or REFUNDED), and a Confirm
\* or Cancel that reaches the state check from any other status fails with
\* InvalidBookingState reporting the current status, changing nothing.
StatusChangesAreLegal == [][LegalStep]_vars

\* a booking was confirmed, and a later command on a confirmed booking was
\* refused with its status
ConfirmedThenRefused ==
  /\ \E b \in DOMAIN bookings : bookings[b].status = CONFIRMED
  /\ \E t \in Tasks :
       task[t].result = "INVALID_BOOKING_STATE" /\ task[t].errStatus = CONFIRMED

\* the event rows of aggregate b
EventsOf(store, b) == {e \in store : e.aggregateId = b}

\* C4: CANCELLED, EXPIRED and REFUNDED are terminal: once a booking's status
\* is one of them, no step changes its row and none appends an event row for
\* that aggregate.
TerminalIsFinal ==
  [][\A b \in DOMAIN bookings :
       bookings[b].status \in TerminalStatus =>
         /\ bookings'[b] = bookings[b]
         /\ EventsOf(events', b) = EventsOf(events, b)]_vars

\* a booking is CANCELLED and a later command on it was refused
CancelledThenRefused ==
  /\ \E b \in DOMAIN bookings : bookings[b].status = CANCELLED
  /\ \E t \in Tasks :
       task[t].result = "INVALID_BOOKING_STATE" /\ task[t].errStatus = CANCELLED

\* C5: in every reachable state a booking's expiresAt is non-null if and
\* only if its status is RESERVED.
ExpiresAtIffReserved ==
  \A b \in DOMAIN bookings :
    (bookings[b].expiresAt # NoTime) <=> (bookings[b].status = RESERVED)

\* a reservation has been confirmed or cancelled
ReservationEnded ==
  \E b \in DOMAIN bookings :
    /\ bookings[b].status \in {CONFIRMED, CANCELLED}
    /\ \E e \in events : e.aggregateId = b /\ e.eventType = "TICKET_RESERVED"

\* C6: in every reachable state a booking's paymentId is non-null if and
\* only if its status is CONFIRMED or REFUNDED; a booking that was confirmed
\* and then cancelled has no paymentId.
PaymentIdIffConfirmed ==
  \A b \in DOMAIN bookings :
    (bookings[b].paymentId # NoPayment) <=> (bookings[b].status \in {CONFIRMED, REFUNDED})

\* C6, as the code has it: a booking's paymentId is non-null if and only if
\* the booking has been confirmed (confirmedAt is set and a TICKET_CONFIRMED
\* row is stored): it is set in CONFIRMED, null in PENDING and RESERVED, and
\* a cancel keeps what it finds.
PaymentIdIffEverConfirmed ==
  \A b \in DOMAIN bookings :
    /\ (bookings[b].paymentId # NoPayment) <=> (bookings[b].confirmedAt # NoTime)
    /\ (bookings[b].paymentId # NoPayment) <=>
         (\E e \in events : e.aggregateId = b /\ e.eventType = "TICKET_CONFIRMED")
    /\ bookings[b].status = CONFIRMED => bookings[b].paymentId # NoPayment
    /\ bookings[b].status \in {PENDING, RESERVED} => bookings[b].paymentId = NoPayment

\* a confirmed booking has been cancelled and still carries its paymentId
CancelledAfterPayment ==
  \E b \in DOMAIN bookings :
    /\ bookings[b].status = CANCELLED
    /\ bookings[b].confirmedAt # NoTime
    /\ bookings[b].paymentId \in PaymentIds

\* C7: for every booking the rows of booking_events carry exactly the
\* versions 1, 2, ..., n, each once, n being the number of rows: the pair
\* (aggregateId, version) is unique and the event count is the last version.
EventVersionsAreSequential ==
  \A b \in DOMAIN bookings :
    LET es == EventsOf(events, b) IN
      /\ {e.version : e \in es} = 1..Cardinality(es)
      /\ \A e1, e2 \in es : e1.version = e2.version => e1 = e2

\* what a step does to task t
FailsInStep(t) ==
  task[t].pc # "done" /\ task'[t].pc = "done" /\ task'[t].result # "ok"

CommitsInStep(t) ==
  task[t].pc = "commit" /\ task'[t].pc # "commit" /\ task'[t].result # "STORE_ERROR"

WritesOf(t) ==
  /\ DOMAIN bookings \subseteq DOMAIN bookings'
  /\ \A b \in DOMAIN bookings' :
       IF \E r \in task[t].txB : r.id = b
         THEN bookings'[b] \in task[t].txB
         ELSE b \in DOMAIN bookings /\ bookings'[b] = bookings[b]
  /\ \A r \in task[t].txB : r.id \in DOMAIN bookings'
  /\ \A k \in DOMAIN seats :
       IF \E w \in task[t].txS : w.key = k
         THEN [key |-> k, row |-> seats'[k]] \in task[t].txS
         ELSE seats'[k] = seats[k]
  /\ events' = events \cup task[t].txE

AtomicStep ==
  /\ \A t \in Tasks :
       FailsInStep(t) => UNCHANGED tables /\ task[t].pc \in InTx \cup {"idle"}
  /\ tables' # tables => \E t \in Tasks : CommitsInStep(t) /\ WritesOf(t)
  /\ \A t \in Tasks : CommitsInStep(t) => task'[t].result \in {"none", "ok"}
  /\ \A t \in Tasks :
       task[t].pc = "publish" /\ task'[t].pc # "publish" =>
         task'[t].pc = "done" /\ task'[t].result = "ok"

\* C8: each command is atomic on the write store.  A command that ends in
\* an error (BadRequest, NotFound, Forbidden, INSUFFICIENT_SEATS,
\* InvalidBookingState or a store failure at any step) changes none of
\* bookings, seat_availability and booking_events; the tables change only at
\* a COMMIT, by all the rows that transaction wrote and nothing else, and a
\* command that has committed does not fail.
CommandsAreAtomic == [][AtomicStep]_vars

\* a command has failed on the store while bookings exist
FailedOnStore ==
  /\ DOMAIN bookings # {}
  /\ \E t \in Tasks : task[t].pc = "done" /\ task[t].result = "STORE_ERROR"

\* the status each command leaves the booking in
PostStatus(op) ==
  CASE op = "Book" -> PENDING
    [] op = "Reserve" -> RESERVED
    [] op = "Confirm" -> CONFIRMED
    [] op = "Cancel" -> CANCELLED

PublishFailsInStep(t) ==
  task[t].pc = "publish" /\ task'[t].pc # "publish" /\ bus' = bus

CommitWinsStep ==
  /\ \A t \in Tasks :
       CommitsInStep(t) =>
         /\ task'[t].ret # {}
         /\ \A r \in task'[t].ret :
              r.id \in DOMAIN bookings' /\ bookings'[r.id] = r
  /\ \A t \in Tasks :
       PublishFailsInStep(t) =>
         /\ task'[t].pc = "done"
         /\ task'[t].result = "ok"
         /\ task'[t].ret = task[t].ret
         /\ \A r \in task[t].ret :
              /\ r.status = PostStatus(task[t].op)
              /\ r.id \in DOMAIN bookings'
              /\ \E e \in events' :
                   e.aggregateId = r.id /\ e.eventType = EventType(task[t].op)
         /\ UNCHANGED tables

\* C9: if the publish fails after the transaction has committed, the
\* command still returns success with the booking as its transaction left
\* it, and the committed booking, seat and event rows stay.
CommitWinsOverPublish == [][CommitWinsStep]_vars

\* a command has returned its booking although its publish failed
ReturnedUnpublished ==
  \E t \in Tasks :
    /\ task[t].pc = "done"
    /\ task[t].result = "ok"
    /\ task[t].published = "failed"
    /\ \E r \in task[t].ret : r.id \in DOMAIN bookings /\ r.status = PostStatus(task[t].op)

\* messages on the bus and rows in the store, for a booking and an event type
OnBus(b, type) == {i \in 1..Len(bus[b]) : bus[b][i].eventType = type}
Stored(b, type) == {e \in events : e.aggregateId = b /\ e.eventType = type}

\* task t sends message m in this step: one message more, on the key of its booking
SendsInStep(t) ==
  /\ task[t].pc = "publish"
  /\ task'[t].pc = "done"
  /\ task'[t].published = "sent"
  /\ \E r \in task[t].ret :
       /\ Len(bus'[r.id]) = Len(bus[r.id]) + 1
       /\ SubSeq(bus'[r.id], 1, Len(bus[r.id])) = bus[r.id]
       /\ bus'[r.id][Len(bus'[r.id])].key = r.id
       /\ bus'[r.id][Len(bus'[r.id])].aggregateId = r.id
       /\ bus'[r.id][Len(bus'[r.id])].eventType = EventType(task[t].op)
       /\ Stored(r.id, EventType(task[t].op)) # {}
       /\ \A b \in BookingIds \ {r.id} : bus'[b] = bus[b]

PublishStep ==
  /\ bus' # bus => \E t \in Tasks : SendsInStep(t)
  /\ \A t \in Tasks :
       /\ task'[t].pc = "publish" /\ task[t].pc # "publish" => CommitsInStep(t)
       /\ CommitsInStep(t) => task'[t].pc = "publish"
       /\ task[t].pc = "publish" /\ task'[t].pc # "publish" =>
            /\ task'[t].published \in {"sent", "failed"}
            /\ task'[t].published = "sent" <=> bus' # bus
       /\ FailsInStep(t) => bus' = bus /\ task'[t].published = "none"
  /\ \A b \in BookingIds : \A op \in {"Book", "Reserve", "Confirm", "Cancel"} :
       Cardinality(OnBus(b, EventType(op))) <= Cardinality(Stored(b, EventType(op)))

\* C10: an event is published only for a transition whose transaction has
\* committed, and only after that commit.  A command that rolls back
\* publishes nothing; a command that commits makes exactly one publish
\* attempt, with the bookingId as key, before it returns.
PublishedOnceAfterCommit == [][PublishStep]_vars

\* a transition of a booking has been published on its key, and another
\* command was rolled back
PublishedAndRolledBack ==
  /\ \E t \in Tasks : task[t].pc = "done" /\ task[t].published = "sent"
  /\ \E t \in Tasks : task[t].pc = "done" /\ task[t].result \notin {"ok", "none"}
  /\ \E b \in BookingIds : Len(bus[b]) > 0 /\ bus[b][1].key = b

\* the place of a transition in a booking's life: it is created, then it may
\* be confirmed, then it may be cancelled (StatusChangesAreLegal,
\* TerminalIsFinal), so of two committed transitions of one booking the one
\* of lower rank committed first
CommitRank(type) ==
  CASE type \in {"TICKET_BOOKED", "TICKET_RESERVED"} -> 1
    [] type = "TICKET_CONFIRMED" -> 2
    [] type = "TICKET_CANCELLED" -> 3

ConfirmAccepted(t) ==
  LET row == bookings[task[t].cmd.bookingId] IN
    \/ row.status = PENDING
    \/ row.status = RESERVED /\ row.expiresAt >= now

ConfirmStep ==
  \A t \in Tasks :
    task[t].op = "Confirm" =>
      /\ ReachesStateCheck(t) /\ ConfirmAccepted(t) =>
           task'[t].result = "none" /\ task'[t].pc \in {"updateSeat", "commit"}
      /\ CommitsInStep(t) =>
           LET id == task[t].cmd.bookingId
               k == <<bookings[id].scheduleId, bookings[id].seatNumber>>
           IN /\ bookings[id].status \in {PENDING, RESERVED}
              /\ bookings'[id].status = CONFIRMED
              /\ bookings'[id].paymentId = task[t].cmd.paymentId
              /\ bookings'[id].paymentId # NoPayment
              /\ bookings'[id].confirmedAt \in 0..now
              /\ bookings'[id].expiresAt = NoTime
              /\ bookings'[id] = [bookings[id] EXCEPT
                                    !.status = CONFIRMED,
                                    !.paymentId = task[t].cmd.paymentId,
                                    !.confirmedAt = bookings'[id].confirmedAt,
                                    !.expiresAt = NoTime]
              /\ task'[t].ret = {bookings'[id]}
              /\ k \in DOMAIN seats =>
                   seats'[k].status = "BOOKED" /\ seats'[k].lockedUntil = NoTime

\* C17: a Confirm on a PENDING booking, or on a RESERVED booking whose
\* expiresAt is not before now, yields status CONFIRMED with paymentId set,
\* confirmedAt set and expiresAt null, and the booking's seat row (if any) is
\* BOOKED with null lockedUntil.
ConfirmYieldsConfirmed == [][ConfirmStep]_vars

\* a reservation of a seat that has a row has been confirmed
ReservedSeatConfirmed ==
  \E b \in DOMAIN bookings :
    /\ bookings[b].status = CONFIRMED
    /\ bookings[b].paymentId \in PaymentIds
    /\ \E e \in events : e.aggregateId = b /\ e.eventType = "TICKET_RESERVED"
    /\ <<bookings[b].scheduleId, bookings[b].seatNumber>> \in DOMAIN seats
    /\ seats[<<bookings[b].scheduleId, bookings[b].seatNumber>>].status = "BOOKED"

ExpiredConfirmStep ==
  \A t \in Tasks :
    task[t].op = "Confirm" /\ ReachesStateCheck(t) =>
      LET row == bookings[task[t].cmd.bookingId] IN
        /\ row.status = RESERVED /\ row.expiresAt < now =>
             /\ task'[t].pc = "done"
             /\ task'[t].result = "INVALID_BOOKING_STATE"
             /\ task'[t].ret = {}
             /\ UNCHANGED tables
        /\ row.status = RESERVED /\ row.expiresAt = now =>
             /\ task'[t].result = "none"
             /\ \A r \in task'[t].ret : r.status = CONFIRMED /\ r.confirmedAt = now

\* C18: a Confirm on a RESERVED booking whose expiresAt is before now fails
\* with InvalidBookingState and changes neither the booking, its seat row nor
\* the event store; a Confirm exactly at expiresAt = now is still accepted.
ExpiredConfirmRefused == [][ExpiredConfirmStep]_vars

\* a Confirm was refused on a reservation that had run out, and the booking
\* is RESERVED still
ConfirmCameTooLate ==
  /\ \E t \in Tasks :
       task[t].result = "INVALID_BOOKING_STATE" /\ task[t].errStatus = RESERVED
  /\ \E b \in DOMAIN bookings :
       /\ bookings[b].status = RESERVED
       /\ bookings[b].expiresAt < now
       /\ ~\E e \in events : e.aggregateId = b /\ e.eventType # "TICKET_RESERVED"

CancelRefundStep ==
  \A t \in Tasks :
    task[t].op = "Cancel" =>
      /\ CommitsInStep(t) =>
           LET before == bookings[task[t].cmd.bookingId]
               amount == IF before.status = CONFIRMED THEN before.price ELSE NoAmount
           IN /\ before.status \in {PENDING, RESERVED, CONFIRMED}
              /\ task'[t].refund = amount
              /\ \E e \in events' \ events :
                   /\ e.eventType = "TICKET_CANCELLED"
                   /\ e.aggregateId = before.id
                   /\ e.payload.refundAmount = amount
              /\ \A e \in events' \ events : e.eventType = "TICKET_CANCELLED"
      /\ task[t].pc = "publish" => task'[t].refund = task[t].refund

\* C19: a Cancel returns and records refundAmount = the booking's full price
\* if and only if the status before the cancel was CONFIRMED; from PENDING or
\* RESERVED the refundAmount is null (Reserve then Cancel: null; Book, Confirm,
\* Cancel: the price).
RefundIffConfirmed == [][CancelRefundStep]_vars

\* a Cancel of a confirmed booking has returned the price as its refund
RefundReturned ==
  \E t \in Tasks :
    /\ task[t].pc = "done"
    /\ task[t].op = "Cancel"
    /\ \E r \in task[t].ret :
         /\ r.status = CANCELLED
         /\ r.confirmedAt # NoTime
         /\ task[t].refund = r.price
         /\ \E e \in events :
              /\ e.aggregateId = r.id
              /\ e.eventType = "TICKET_CANCELLED"
              /\ e.payload.refundAmount = r.price

CancelOwnerStep ==
  \A t \in Tasks :
    (/\ task[t].op = "Cancel"
     /\ task[t].pc = "selectBooking"
     /\ task'[t].pc # "selectBooking"
     /\ task'[t].result # "STORE_ERROR") =>
      LET c == task[t].cmd IN
        IF c.bookingId \notin DOMAIN bookings
          THEN /\ task'[t].pc = "done"
               /\ task'[t].result = "NOT_FOUND"
               /\ UNCHANGED tables
          ELSE LET row == bookings[c.bookingId] IN
            /\ c.userId # NoUser /\ c.userId # row.userId =>
                 /\ task'[t].pc = "done"
                 /\ task'[t].result = "FORBIDDEN"
                 /\ task'[t].ret = {}
                 /\ UNCHANGED tables
            /\ c.userId = NoUser \/ c.userId = row.userId =>
                 /\ task'[t].result # "FORBIDDEN"
                 /\ row.status \in {PENDING, RESERVED, CONFIRMED} =>
                      task'[t].result = "none"

\* C20: a Cancel with a userId that differs from the booking's userId fails
\* with Forbidden and leaves the booking, its seat row and the event store
\* unchanged; a Cancel on a booking that does not exist fails with NotFound;
\* a Cancel without a userId performs no ownership check.
CancelChecksOwner == [][CancelOwnerStep]_vars

\* another user's Cancel was refused and the booking stands
CancelForbidden ==
  /\ \E t \in Tasks : task[t].pc = "done" /\ task[t].result = "FORBIDDEN"
  /\ \E b \in DOMAIN bookings : bookings[b].status # CANCELLED

\* a reservation that has run out
Overdue(b) ==
  /\ b \in DOMAIN bookings
  /\ bookings[b].status = RESERVED
  /\ bookings[b].expiresAt < now

\* C16: every booking that is RESERVED with expiresAt in the past, and is
\* not confirmed or cancelled first, is eventually moved to EXPIRED, its seat
\* row returns to AVAILABLE and a TICKET_EXPIRED event is stored and
\* published.
OverdueIsExpired ==
  \A b \in BookingIds :
    Overdue(b) ~>
      /\ b \in DOMAIN bookings
      /\ \/ bookings[b].status \in {CONFIRMED, CANCELLED}
         \/ /\ bookings[b].status = EXPIRED
            /\ \E e \in events : e.aggregateId = b /\ e.eventType = "TICKET_EXPIRED"
            /\ OnBus(b, "TICKET_EXPIRED") # {}

\* nothing is on its way: no command is running and the projector is past
\* every message, every stored event having been published
Settled ==
  /\ \A t \in Tasks : task[t].pc = "idle"
  /\ \A b \in BookingIds :
       /\ offset[b] = Len(bus[b])
       /\ Len(bus[b]) = Cardinality(EventsOf(events, b))

\* C12: the read model is eventually consistent: if every publish succeeds
\* and the bus delivers every message, then once commands stop, for every
\* booking the user_tickets_view row exists with the status the booking has
\* in the write store.
ReadModelCatchesUp ==
  Settled =>
    \A b \in DOMAIN bookings :
      /\ b \in DOMAIN readDb.tickets
      /\ readDb.tickets[b].status = bookings[b].status

\* the projector is given the next message of key b in this step
Consumes(b) == offset[b] < Len(bus[b]) /\ offset'[b] = offset[b] + 1

ReplayStep ==
  \A b \in BookingIds :
    Consumes(b) /\ NextMessage(b).eventType \in {"TICKET_BOOKED", "TICKET_RESERVED"} =>
      LET id == NextMessage(b).payload.bookingId IN
        (/\ id \in DOMAIN readDb.tickets
         /\ readDb.tickets[id].status \in {CONFIRMED, CANCELLED, EXPIRED, REFUNDED}) =>
          readDb'.tickets[id].status = readDb.tickets[id].status

\* C13: the projector never regresses status on replay: applying
\* TICKET_BOOKED or TICKET_RESERVED to a user_tickets_view row whose status is
\* already CONFIRMED, CANCELLED, EXPIRED or REFUNDED leaves that status
\* unchanged.
ReplayKeepsStatus == [][ReplayStep]_vars

\* the projector run over a stream of messages, none failing
RECURSIVE RunProjector(_, _)
RunProjector(db, stream) ==
  IF stream = <<>> THEN db
  ELSE RunProjector(Projected(db, Head(stream)), Tail(stream))

\* the messages of the topic, key after key, each key's in send order
RECURSIVE StreamFrom(_)
StreamFrom(b) == IF b > MaxBookings THEN <<>> ELSE bus[b] \o StreamFrom(b + 1)

\* C14: the projector is idempotent: running it over an event stream twice
\* leaves the read store (user_tickets_view rows and the booked_seats of
\* schedule_availability_view) in the same state as running it once.
ProjectorIsIdempotent ==
  LET once == RunProjector(EmptyReadDb, StreamFrom(1)) IN
    RunProjector(once, StreamFrom(1)) = once

AcknowledgeStep ==
  /\ \A b \in BookingIds :
       Consumes(b) => readDb' = Projected(readDb, NextMessage(b))
  /\ readDb'.checkpoint # readDb.checkpoint =>
       \E b \in BookingIds :
         /\ Consumes(b)
         /\ readDb'.checkpoint = NextMessage(b).eventId
         /\ readDb' = Projected(readDb, NextMessage(b))

\* C15: when applying an event to the read store or updating the checkpoint
\* fails, the checkpoint is not advanced and the message is not acknowledged
\* to the bus (so that it is delivered to the projector again): the consumer
\* moves past a message only when processMessage has completed for it.
FailedMessageIsKept == [][AcknowledgeStep]_vars

\* the seat check of task t is answered in this step
SeatCheckedInStep(t) ==
  /\ task[t].pc = "seatCheck"
  /\ task'[t].pc # "seatCheck"
  /\ task'[t].result # "STORE_ERROR"

\* the seat row can be acquired by a Reserve whose transaction began at txnow
\* (NOW() of the seat check is the start time of its transaction)
Acquirable(k, txnow) ==
  /\ k \in DOMAIN seats
  /\ \/ seats[k].status = "AVAILABLE"
     \/ /\ seats[k].status = "LOCKED"
        /\ seats[k].lockedUntil # NoTime
        /\ seats[k].lockedUntil < txnow

ReserveStep ==
  \A t \in Tasks :
    task[t].op = "Reserve" /\ task[t].cmd.seatNumber # NoSeat =>
      LET k == SeatKey(task[t].cmd)
          duration == IF task[t].cmd.duration # 0 THEN task[t].cmd.duration
                      ELSE DEFAULT_RESERVATION_DURATION_MINUTES
      IN /\ SeatCheckedInStep(t) =>
              IF Acquirable(k, task[t].txStart)
                THEN /\ task'[t].pc = "commit"
                     /\ task'[t].result = "none"
                     /\ \E b \in task'[t].txB :
                          /\ task'[t].txB = {b}
                          /\ b.id \notin DOMAIN bookings
                          /\ b.status = RESERVED
                          /\ b.expiresAt = now + duration
                          /\ task'[t].txS =
                               {[key |-> k,
                                 row |-> [status |-> "LOCKED", bookingId |-> b.id,
                                          lockedUntil |-> b.expiresAt]]}
                ELSE /\ task'[t].pc = "done"
                     /\ task'[t].result = "INSUFFICIENT_SEATS"
                     /\ UNCHANGED tables
         /\ (/\ SeatCheckedInStep(t)
             /\ k \in DOMAIN seats
             /\ \/ seats[k].status = "BOOKED"
                \/ seats[k].status = "LOCKED" /\ seats[k].lockedUntil >= now) =>
              task'[t].result = "INSUFFICIENT_SEATS"
         /\ CommitsInStep(t) =>
              \E b \in task[t].txB :
                /\ b.id \in DOMAIN bookings' \ DOMAIN bookings
                /\ bookings'[b.id] = b
                /\ b.status = RESERVED
                /\ seats'[k] = [status |-> "LOCKED", bookingId |-> b.id,
                                lockedUntil |-> b.expiresAt]

\* C21: a Reserve with a seatNumber succeeds if and only if the seat row is
\* AVAILABLE, or LOCKED with lockedUntil before now (the NOW() of the seat
\* check, the start of the Reserve's transaction); a BOOKED seat, an
\* unexpired lock or a missing seat row gives Conflict.  On success the new
\* booking is RESERVED with expiresAt = now + duration and the seat row is
\* LOCKED with lockedUntil = expiresAt and bookingId = the new booking.
ReserveTakesFreeSeat == [][ReserveStep]_vars

\* a lock that had run out was taken by a second reservation
StaleLockTaken ==
  \E a, b \in DOMAIN bookings :
    /\ a # b
    /\ bookings[a].status = RESERVED
    /\ bookings[b].status = RESERVED
    /\ bookings[a].seatNumber = bookings[b].seatNumber
    /\ bookings[a].expiresAt < bookings[b].expiresAt
    /\ <<bookings[b].scheduleId, bookings[b].seatNumber>> \in DOMAIN seats
    /\ seats[<<bookings[b].scheduleId, bookings[b].seatNumber>>] =
         [status |-> "LOCKED", bookingId |-> b, lockedUntil |-> bookings[b].expiresAt]

BookStep ==
  \A t \in Tasks :
    task[t].op = "Book" =>
      LET k == SeatKey(task[t].cmd) IN
        /\ SeatCheckedInStep(t) =>
             IF k \in DOMAIN seats /\ seats[k].status = "AVAILABLE"
               THEN task'[t].pc = "commit" /\ task'[t].result = "none"
               ELSE /\ task'[t].pc = "done"
                    /\ task'[t].result = "INSUFFICIENT_SEATS"
                    /\ UNCHANGED tables
        /\ CommitsInStep(t) =>
             \E id \in DOMAIN bookings' :
               /\ DOMAIN bookings' \ DOMAIN bookings = {id}
               /\ \A b \in DOMAIN bookings : bookings'[b] = bookings[b]
               /\ bookings'[id].status = PENDING
               /\ bookings'[id].seatNumber = task[t].cmd.seatNumber
               /\ task'[t].ret = {bookings'[id]}
               /\ \E e \in events' :
                    /\ events' \ events = {e}
                    /\ e \notin events
                    /\ e.eventType = "TICKET_BOOKED"
                    /\ e.aggregateId = id
                    /\ e.version = 1
               /\ IF task[t].cmd.seatNumber # NoSeat
                    THEN /\ seats[k].status = "AVAILABLE"
                         /\ seats'[k].status = "BOOKED"
                         /\ seats'[k].bookingId = id
                         /\ \A o \in DOMAIN seats \ {k} : seats'[o] = seats[o]
                    ELSE seats' = seats

\* C22: a successful Book creates exactly one new booking in status
\* PENDING, moves the requested seat row (if a seatNumber was given) from
\* AVAILABLE to BOOKED with bookingId = the new booking in the same
\* transaction, writes exactly one TICKET_BOOKED event row at version 1, and
\* fails with INSUFFICIENT_SEATS whenever the requested seat is not AVAILABLE.
BookTakesAvailableSeat == [][BookStep]_vars

\* a Book has taken a seat, and another Book of that seat was refused
SeatBookedOnce ==
  /\ \E b \in DOMAIN bookings :
       /\ bookings[b].status = PENDING
       /\ <<bookings[b].scheduleId, bookings[b].seatNumber>> \in DOMAIN seats
       /\ seats[<<bookings[b].scheduleId, bookings[b].seatNumber>>].status = "BOOKED"
       /\ seats[<<bookings[b].scheduleId, bookings[b].seatNumber>>].bookingId = b
       /\ \E e \in events : e.aggregateId = b /\ e.eventType = "TICKET_BOOKED"
  /\ \E t \in Tasks : task[t].pc = "done" /\ task[t].result = "INSUFFICIENT_SEATS"

\* query task q answers a ticket-details query in this step
DetailsAnsweredInStep(q) ==
  /\ qtask[q].pc # "done"
  /\ qtask'[q].pc = "done"
  /\ ValidDetails(qtask'[q].query)

OwnerStep ==
  \A q \in QueryTasks :
    DetailsAnsweredInStep(q) =>
      LET query == qtask'[q].query
          id == query.bookingId
      IN /\ id \notin DOMAIN readDb.tickets => qtask'[q].result = "NOT_FOUND"
         /\ id \in DOMAIN readDb.tickets /\ readDb.tickets[id].userId # query.userId =>
              qtask'[q].result = "FORBIDDEN" /\ qtask'[q].ret = {}
         /\ id \in DOMAIN bookings /\ bookings[id].userId # query.userId =>
              qtask'[q].ret = {}
         /\ qtask'[q].result = "ok" =>
              /\ qtask'[q].ret # {}
              /\ \A ticket \in qtask'[q].ret :
                   ticket.id = id /\ ticket.userId = query.userId

\* C23: Get ticket details returns a ticket only to its owner: after any
\* sequence of queries by any users and projector updates, a request with
\* userId u for a booking whose userId is not u fails with Forbidden, whether
\* the ticket is served from the cache or from the read store, and a booking
\* with no user_tickets_view row gives NotFound.
TicketOnlyToOwner == [][OwnerStep]_vars

\* a request of another user was refused on the cached ticket
RefusedFromCache ==
  \E q \in QueryTasks :
    /\ qtask[q].pc = "done"
    /\ qtask[q].result = "FORBIDDEN"
    /\ qtask[q].hit
    /\ qtask[q].query.bookingId \in DOMAIN cache.ticket
    /\ cache.ticket[qtask[q].query.bookingId].userId # qtask[q].query.userId

\* query task q takes a list query in this step
ListTakenInStep(q) == qtask[q].pc = "idle" /\ qtask'[q].query \in ListQueries

ListInputStep ==
  \A q \in QueryTasks :
    /\ ListTakenInStep(q) =>
         \A p \in qtask'[q].query.page :
           p < 1 => /\ qtask'[q].pc = "done"
                    /\ qtask'[q].result = "BAD_REQUEST"
    /\ qtask[q].pc # "done" /\ qtask'[q].pc = "done" /\ qtask'[q].result = "ok"
         /\ qtask'[q].query \in ListQueries =>
         \A result \in qtask'[q].ret :
           /\ result.limit <= MAX_LIMIT
           /\ \A l \in qtask'[q].query.limit : l > MAX_LIMIT => result.limit = MAX_LIMIT

\* C24: List user tickets: a limit greater than 100 is clamped to 100, and
\* every page value below 1 is rejected with BadRequest without reading the
\* cache or the read store.
ListClampsAndRejects == [][ListInputStep]_vars

InRange(d) == d >= 5 /\ d <= 60

\* C25: Reserve with a reservationDurationMinutes outside [5, 60] fails with
\* BadRequest and creates no booking, locks no seat and writes no event.
ReserveDurationChecked ==
  \A t \in Tasks :
    task[t].op = "Reserve" /\ task[t].cmd.duration # 0
      /\ ~InRange(task[t].cmd.duration) =>
        /\ task[t].pc = "done"
        /\ task[t].result = "BAD_REQUEST"
        /\ task[t].txB = {} /\ task[t].txS = {} /\ task[t].txE = {}

\* C26: an infrastructure failure (write-store connection lost or query
\* failure) during a command aborts the transaction and surfaces to the
\* caller as the ServiceUnavailable error kind (503), not as Internal (500).
StoreFailureIsUnavailable ==
  \A t \in Tasks :
    task[t].pc = "done" /\ task[t].result = "STORE_ERROR" =>
      /\ task[t].txB = {} /\ task[t].txS = {} /\ task[t].txE = {}
      /\ task[t].lockB = {} /\ task[t].lockS = {}
      /\ errorHandler(task[t].result) = [status |-> 503, code |-> "SERVICE_UNAVAILABLE"]

\* a booking of which nothing is known yet
UnknownBooking ==
  [id |-> NoBooking, userId |-> NoUser, scheduleId |-> "none", seatNumber |-> NoSeat,
   passengerName |-> NoName, price |-> 0, status |-> "none", paymentId |-> NoPayment,
   confirmedAt |-> NoTime, cancelledAt |-> NoTime, expiresAt |-> NoTime]

\* the booking after event row e, from what the row and its payload carry:
\* the status its event type stands for and the columns its handler sets
Applied(row, e) ==
  LET p == e.payload IN
    CASE e.eventType = "TICKET_BOOKED" ->
           [row EXCEPT !.id = p.bookingId, !.userId = p.userId,
                       !.scheduleId = p.scheduleId, !.seatNumber = p.seatNumber,
                       !.price = p.price, !.status = PENDING]
      [] e.eventType = "TICKET_RESERVED" ->
           [row EXCEPT !.id = p.bookingId, !.userId = p.userId,
                       !.scheduleId = p.scheduleId, !.seatNumber = p.seatNumber,
                       !.price = p.price, !.status = RESERVED,
                       !.expiresAt = p.expiresAt]
      [] e.eventType = "TICKET_CONFIRMED" ->
           [row EXCEPT !.status = CONFIRMED, !.paymentId = p.paymentId,
                       !.confirmedAt = p.confirmedAt, !.expiresAt = NoTime]
      [] e.eventType = "TICKET_CANCELLED" ->
           [row EXCEPT !.status = CANCELLED, !.cancelledAt = p.cancelledAt,
                       !.expiresAt = NoTime]

RECURSIVE Folded(_, _)
Folded(row, es) == IF es = <<>> THEN row ELSE Folded(Applied(row, Head(es)), Tail(es))

\* the event rows es in every order that ORDER BY version can return them
InVersionOrder(es) ==
  {o \in [1..Cardinality(es) -> es] :
     /\ \A i, j \in DOMAIN o : i # j => o[i] # o[j]
     /\ \A i, j \in DOMAIN o : i < j => o[i].version <= o[j].version}

\* C27: for every booking, folding its booking_events rows in version order
\* reconstructs a booking equal to the current bookings row in every field
\* except the time-mutable ones such as updatedAt: the stored payloads carry
\* identity, passenger, price, status, paymentId and expiresAt.
FoldOfEventsIsBooking ==
  \A b \in DOMAIN bookings :
    \A o \in InVersionOrder(EventsOf(events, b)) :
      Folded(UnknownBooking, o) = bookings[b]

\* the same with the passenger's name left out of the comparison
FoldIsBookingButName ==
  \A b \in DOMAIN bookings :
    \A o \in InVersionOrder(EventsOf(events, b)) :
      [Folded(UnknownBooking, o) EXCEPT !.passengerName = bookings[b].passengerName]
        = bookings[b]

\* the bookings on which task t has committed a Confirm or a Cancel
CommittedOn(t) ==
  IF /\ task[t].op \in {"Confirm", "Cancel"}
     /\ task[t].pc = "publish" \/ (task[t].pc = "done" /\ task[t].result = "ok")
    THEN {r.id : r \in task[t].ret}
    ELSE {}

\* C28: write fence: when two command transactions target the same existing
\* booking concurrently, both attempt to insert the same next event version
\* and exactly one of them commits; the other fails with a version conflict
\* (or must retry) and leaves no event row.
OneOfTwoCommits ==
  \A t, o \in Tasks : t # o => CommittedOn(t) \cap CommittedOn(o) = {}

\* C29: in every reachable state each seat_availability row is well-formed:
\* a LOCKED row has a non-null bookingId and a non-null lockedUntil, a BOOKED
\* row a non-null bookingId and a null lockedUntil, an AVAILABLE row both null.
SeatRowsWellFormed ==
  \A k \in DOMAIN seats :
    LET row == seats[k] IN
      /\ row.status \in {"AVAILABLE", "LOCKED", "BOOKED"}
      /\ row.status = "LOCKED" => row.bookingId # NoBooking /\ row.lockedUntil # NoTime
      /\ row.status = "BOOKED" => row.bookingId # NoBooking /\ row.lockedUntil = NoTime
      /\ row.status = "AVAILABLE" => row.bookingId = NoBooking /\ row.lockedUntil = NoTime

\* C30: for every schedule, bookedSeats in the read model is never negative,
\* after any sequence of projector messages including duplicated, reordered
\* and unmatched cancel events.
BookedSeatsNotNegative ==
  \A s \in DOMAIN readDb.availability : readDb.availability[s] >= 0

\* a TICKET_CANCELLED message has been processed again after a redelivery,
\* and the counter of its schedule stands at zero
CancelGivenTwice ==
  \E b \in BookingIds :
    /\ redelivered > 0
    /\ offset[b] = Len(bus[b])
    /\ Len(bus[b]) >= 2
    /\ bus[b][Len(bus[b])].eventType = "TICKET_CANCELLED"
    /\ readDb.checkpoint = bus[b][Len(bus[b])].eventId
    /\ b \in DOMAIN readDb.tickets
    /\ readDb.tickets[b].scheduleId \in DOMAIN readDb.availability
    /\ readDb.availability[readDb.tickets[b].scheduleId] = 0

\* the projector processes the next message of key b to its end in this step
AppliesInStep(b) ==
  /\ offset[b] < Len(bus[b])
  /\ offset'[b] = offset[b] + 1
  /\ readDb' = Projected(readDb, NextMessage(b))

InvalidationStep ==
  \A b \in BookingIds :
    AppliesInStep(b) =>
      LET m == NextMessage(b) IN
        /\ m.payload.bookingId \notin DOMAIN cache'.ticket
        /\ \A k \in DOMAIN cache'.userTickets : k.userId # m.payload.userId

\* C31: for every ticket event it applies (BOOKED, RESERVED, CONFIRMED,
\* CANCELLED, EXPIRED) for booking b of user u, the projector deletes the
\* cache entry ticket:{b} and every entry matching user:{u}:tickets:*, so that
\* no entry under those keys written before the event was applied survives
\* its processing.
EventInvalidatesCache == [][InvalidationStep]_vars

\* query q has returned the ticket of booking id as the read store has it
ReturnedCurrent(q, id) ==
  /\ qtask[q].pc = "done"
  /\ qtask[q].result = "ok"
  /\ id \in DOMAIN readDb.tickets
  /\ qtask[q].ret = {readDb.tickets[id]}

\* query q starts in this step and is answered from the cache
AnsweredFromCacheInStep(q, id) ==
  /\ qtask[q].pc = "idle"
  /\ qtask'[q].pc = "done"
  /\ qtask'[q].result = "ok"
  /\ qtask'[q].hit
  /\ qtask'[q].query.bookingId = id

NoStaleStep ==
  \A id \in BookingIds : \A q1, q2 \in QueryTasks :
    q1 # q2 /\ ReturnedCurrent(q1, id) /\ AnsweredFromCacheInStep(q2, id) =>
      qtask'[q2].ret = qtask[q1].ret

\* C32: cache invalidation for an event happens strictly after the read-store
\* update for that event, so that under any interleaving of queries with the
\* projector, once a query has returned the post-event state of a ticket, no
\* later query returns the pre-event state from the cache.
NoStaleAfterFresh == [][NoStaleStep]_vars

\* the answer task q gives in this step is the one the read store gave it
FromReadStore(q) ==
  LET query == qtask[q].query
      id == query.bookingId
  IN CASE qtask[q].pc = "set" ->
            qtask'[q].result = "ok" /\ qtask'[q].ret = qtask[q].found
       [] qtask[q].pc = "select" ->
            /\ qtask'[q].result = "ok"
            /\ \A r \in qtask'[q].ret :
                 /\ r.data = PageRows(readDb, query)
                 /\ {r.total} = qtask[q].found
       [] qtask[q].pc = "read" ->
            IF id \notin DOMAIN readDb.tickets THEN qtask'[q].result = "NOT_FOUND"
            ELSE /\ readDb.tickets[id].userId # query.userId
                 /\ qtask'[q].result = "FORBIDDEN"
       [] OTHER -> FALSE

\* what task q keeps of its read is what the read store holds
KeptFromReadStore(q) ==
  qtask[q].pc = "read" /\ qtask'[q].pc = "set" =>
    qtask'[q].found = {readDb.tickets[qtask[q].query.bookingId]}

BestEffortStep ==
  /\ \A q \in QueryTasks :
       /\ qtask[q].pc = "idle" /\ qtask'[q].pc = "done" =>
            qtask'[q].result = "BAD_REQUEST"
       /\ qtask[q].pc \notin {"idle", "done"} /\ qtask'[q].pc = "done" =>
            FromReadStore(q) /\ ~qtask'[q].hit
       /\ KeptFromReadStore(q)
  /\ \A b \in BookingIds :
       offset'[b] # offset[b] =>
         /\ offset'[b] = offset[b] + 1
         /\ readDb' = Projected(readDb, NextMessage(b))
         /\ Handled(readDb, NextMessage(b)) # <<>> =>
              readDb'.checkpoint = NextMessage(b).eventId

\* C33: the cache is best-effort: when every cache operation fails, List
\* user tickets and Get ticket details return exactly what the read store
\* gives (no error caused by the cache), and the projector still applies the
\* event to the read store and advances the checkpoint.
CacheIsBestEffort == [][BestEffortStep]_vars

\* with the cache unreachable a ticket has been returned to its owner and the
\* projector has processed a message
AnsweredWithoutCache ==
  /\ \E q \in QueryTasks :
       /\ qtask[q].pc = "done"
       /\ qtask[q].result = "ok"
       /\ qtask[q].query.bookingId \in DOMAIN readDb.tickets
       /\ qtask[q].ret = {readDb.tickets[qtask[q].query.bookingId]}
  /\ cache = EmptyCache
  /\ readDb.checkpoint # NoEventId

ExpiredStep ==
  \A b \in BookingIds :
    AppliesInStep(b) /\ NextMessage(b).eventType = "TICKET_EXPIRED"
      /\ b \in DOMAIN readDb.tickets
      /\ readDb.tickets[b].scheduleId \in DOMAIN readDb.availability =>
        LET s == readDb.tickets[b].scheduleId
            n == readDb.availability[s]
        IN /\ readDb'.tickets[b].status = EXPIRED
           /\ readDb'.availability[s] = IF n >= 1 THEN n - 1 ELSE 0

\* C34: on a TICKET_EXPIRED event for booking b the TicketView row of b gets
\* status EXPIRED and the bookedSeats of b's schedule is decremented by 1,
\* clamped at zero.
ExpiredIsProjected == [][ExpiredStep]_vars

\* C35: seat rows and bookings stay mutually consistent in every reachable
\* state: a LOCKED or BOOKED seat row references, through bookingId, a booking
\* with the same scheduleId and seatNumber whose status is RESERVED (when
\* LOCKED) or PENDING or CONFIRMED (when BOOKED); and every booking in status
\* PENDING, RESERVED or CONFIRMED that has a seatNumber is the booking
\* referenced by its seat row.
SeatsMatchBookings ==
  /\ \A k \in DOMAIN seats :
       seats[k].status \in {"LOCKED", "BOOKED"} =>
         /\ seats[k].bookingId \in DOMAIN bookings
         /\ LET b == bookings[seats[k].bookingId] IN
              /\ <<b.scheduleId, b.seatNumber>> = k
              /\ seats[k].status = "LOCKED" => b.status = RESERVED
              /\ seats[k].status = "BOOKED" => b.status \in {PENDING, CONFIRMED}
  /\ \A id \in DOMAIN bookings :
       LET b == bookings[id] IN
         /\ b.status \in {PENDING, RESERVED, CONFIRMED}
         /\ <<b.scheduleId, b.seatNumber>> \in DOMAIN seats
         => seats[<<b.scheduleId, b.seatNumber>>].bookingId = id

\* the COMMIT of a Confirm or Cancel of a booking leaves the seat rows of the
\* other bookings as they are
OthersSeatsStep ==
  \A t \in Tasks :
    /\ task[t].pc = "commit"
    /\ task'[t].pc = "publish"
    /\ task[t].op \in {"Confirm", "Cancel"}
    => \A k \in DOMAIN seats :
         seats[k].bookingId # task[t].cmd.bookingId => seats'[k] = seats[k]

\* C36: Confirm and Cancel of booking b leave unchanged every
\* seat_availability row whose bookingId is not b: in particular, cancelling
\* or confirming a reservation whose stale lock was re-acquired by another
\* booking does not release or alter the other booking's seat row.
OthersSeatsUntouched == [][OthersSeatsStep]_vars

\* C37: for every committed transition, the event published on the bus is
\* the same event as the row written to booking_events: it carries the same
\* eventId and the same version, so the projector checkpoint's
\* lastProcessedEventId always identifies a row of the event store.
PublishedIsStored ==
  /\ \A b \in BookingIds : \A i \in 1..Len(bus[b]) :
       \E e \in events : e.eventId = bus[b][i].eventId /\ e.version = bus[b][i].version
  /\ readDb.checkpoint # NoEventId =>
       \E e \in events : e.eventId = readDb.checkpoint

\* task t has committed its Confirm
ConfirmCommitted(t) == task[t].op = "Confirm" /\ CommittedOn(t) # {}

\* while the winner's answer is on its way the other Confirm has not gone
\* past its SELECT, the booking has the winner's paymentId and one
\* TICKET_CONFIRMED row
WinnerKept ==
  \A t, o \in Tasks :
    t # o /\ ConfirmCommitted(t) =>
      /\ task[o].op = "Confirm" => task[o].pc = "selectBooking"
      /\ \A r \in task[t].ret :
           /\ bookings[r.id].paymentId = r.paymentId
           /\ Cardinality({e \in events : /\ e.aggregateId = r.id
                                           /\ e.eventType = "TICKET_CONFIRMED"}) = 1

\* a Confirm gets past its SELECT: after the other's COMMIT it is refused and
\* changes nothing, and on a PENDING or unexpired RESERVED booking it goes on
ConfirmRaceStep ==
  \A t, o \in Tasks :
    /\ t # o
    /\ task[t].op = "Confirm" /\ task[o].op = "Confirm"
    /\ task[t].pc = "selectBooking" /\ task'[t].pc # "selectBooking"
    => LET id == task[t].cmd.bookingId IN
         IF id \in CommittedOn(o)
           THEN /\ task'[t].pc = "done"
                /\ task'[t].result = "INVALID_BOOKING_STATE"
                /\ bookings' = bookings /\ events' = events /\ seats' = seats
           ELSE /\ bookings[id].status \in {PENDING, RESERVED}
                /\ bookings[id].expiresAt = NoTime \/ bookings[id].expiresAt >= now
                => task'[t].pc \in {"updateSeat", "commit"}

\* C38: for two concurrent Confirm commands on the same PENDING or unexpired
\* RESERVED booking, under every interleaving exactly one succeeds and the
\* other fails with InvalidBookingState; the booking keeps the winner's
\* paymentId and exactly one TICKET_CONFIRMED event row exists for it.
OneConfirmWins == []WinnerKept /\ [][ConfirmRaceStep]_vars

\* two Confirms with different payments have run on one booking: one has
\* won and the other was refused
ConfirmedOnceOfTwo ==
  \E t, o \in Tasks :
    /\ t # o
    /\ task[t].op = "Confirm" /\ task[t].pc = "done" /\ task[t].result = "ok"
    /\ task[o].pc = "done"
    /\ task[o].result = "INVALID_BOOKING_STATE"
    /\ task[o].errStatus = CONFIRMED
    /\ \E r \in task[t].ret :
         bookings[r.id].paymentId = r.paymentId /\ r.paymentId = "P8"

\* C39: no interleaving of concurrent Book, Reserve, Confirm and Cancel
\* transactions deadlocks on the booking and seat row locks: every started
\* command transaction eventually commits or rolls back, given that each
\* lock holder keeps running.
TransactionsEnd ==
  \A t \in Tasks : (task[t].pc \in InTx) ~> (task[t].pc \notin InTx)

\* two transactions are open, one waiting for a row the other has locked
WaitsForLock ==
  \E t, o \in Tasks :
    /\ t # o
    /\ task[t].pc = "updateSeat"
    /\ task[t].lockB # {}
    /\ \E k \in task[o].lockS :
         k = <<TxBooking(t).scheduleId, TxBooking(t).seatNumber>>

CancelledStaysStep ==
  \A id \in DOMAIN readDb.tickets :
    readDb.tickets[id].status = CANCELLED =>
      id \in DOMAIN readDb'.tickets /\ readDb'.tickets[id].status = CANCELLED

\* C40: in the read model a cancelled ticket stays cancelled: once a
\* TicketView row has status CANCELLED, no later projector message (including
\* a duplicated or late TICKET_CONFIRMED, TICKET_BOOKED or TICKET_RESERVED)
\* changes its status.
CancelledStaysCancelled == [][CancelledStaysStep]_vars

====
